---------------------------- MODULE Spec2Model ----------------------------
(***************************************************************************)
(* A model of the fetch server of aeon-seraph/mcp-servers                  *)
(* (src/src/fetch/src/index.ts): the tool-call handler, call_fetch, the    *)
(* retrying fetch_url, the content classifier and the paginator.           *)
(*                                                                         *)
(* Numbers.  The tool's numeric parameters are JavaScript numbers          *)
(* (z.number(), not z.number().int()), so the schema admits non-integers.  *)
(* A number n is held here as the integer n * Unit (fixed point,           *)
(* resolution 1/Unit); string lengths and loop counters are plain          *)
(* integers and are scaled with Num() where the code mixes the two.        *)
(*                                                                         *)
(* Strings are TLA+ strings; Len, \o and SubSeq apply to them.             *)
(***************************************************************************)
EXTENDS Integers, Sequences, FiniteSets, TLC

VARIABLES
    \* ---- one tool call of the fetch server (Spec) ----
    pc,          \* where the call is: "idle", "fetching" (await fetch),
                 \* "reading" (await response.text()), "pausing", "returned"
    request,     \* the CallToolRequest being served
    args,        \* FetchSchema.parse(request.params.arguments)
    attempt,     \* fetch_url: the loop variable
    lastError,   \* fetch_url: lastError (name, message)
    timers,      \* attempts of this call whose setTimeout is still armed
    pendingType, \* content-type header of the response whose body is read
    response,    \* what fetch_url returned: [pageRaw, contentType]
    result,      \* what the handler returned (or the fault it raised)
    attempts,    \* history: number of fetch() calls issued by this call
    pauses,      \* history: number of 1-second pauses started by this call
    netFailures, \* history: attempts that ended in a network error/timeout
    ran,         \* history: stages of call_fetch that ran in this call
    original,    \* history: call_fetch's `content` as line 86 reads it
    outcome,     \* history: how the last attempt of this call ended
    \* ---- the paginator applied to one text by one client (SpecPaginate) ----
    pgText,      \* the full text being paginated
    pgMax,       \* the max_length the client uses
    pgStart,     \* start_index of the client's last call
    pgOut,       \* output of the client's last call
    pgAcc,       \* slices gathered along the cursor chain from index 0
    pgChain,     \* "none", "open" (a next start_index was reported), "ended"
    pgCalls,     \* history: calls the client has made in its walk from 0
    \* ---- several fetch_url calls running at once (SpecConcurrent) ----
    cPc,         \* per call: "idle", "fetching", "reading", "pausing", "done"
    cRetries,    \* per call: retries
    cAttempt,    \* per call: the loop variable
    cTimers,     \* armed timers: <<c, k>> was armed by attempt k of call c
    cLastAbort,  \* history: the last abort: which timer, which request
    \* ---- one server answering call after call (SpecRepeat) ----
    rLast,       \* the call served last: its arguments and its output
    rMemo,       \* history: an earlier call, kept to compare with
    rBetween,    \* history: calls with other arguments served since rMemo
    \* ---- the browser server, src/src/puppeteer/src/index.ts (SpecBrowser) ----
    browser,     \* `browser` (line 11): 0 for null, else a browser instance
    pages,       \* `pages` (line 14): page ID -> page
    launched,    \* browser instances puppeteer.launch has started so far
    up,          \* the browser instances that are running
    events,      \* instances whose 'disconnected' event is yet to be delivered
    calls,       \* per tool call in progress: where it waits, and its locals
    last,        \* history: the result returned last, and the call it answers
    revoked,     \* history: the page IDs tracked when a closeBrowser succeeded
    closedIds,   \* history: the page IDs a closePage reported as closed
                 \* (the three are kept by SpecBrowser only: see Logging)
    \* The thinking server (src/src/thinking/src/index.ts).
    thoughtHistory,  \* `thoughtHistory` (line 24): the thoughts pushed
    branches,        \* `branches` (line 25): own key -> the thoughts pushed
    thoughtResult,   \* what the handler answered to the last call
    accepted         \* history: the arguments of the calls that passed the
                     \* handler's checks (line 164 was reached), in order

fetchVars == <<pc, request, args, attempt, lastError, timers, pendingType,
               response, result, attempts, pauses, netFailures, ran,
               original, outcome>>
pageVars  == <<pgText, pgMax, pgStart, pgOut, pgAcc, pgChain, pgCalls>>
concVars  == <<cPc, cRetries, cAttempt, cTimers, cLastAbort>>
repeatVars == <<rLast, rMemo, rBetween>>
browserVars == <<browser, pages, launched, up, events, calls, last, revoked, closedIds>>
thinkVars == <<thoughtHistory, branches, thoughtResult, accepted>>
vars      == <<fetchVars, pageVars, concVars, repeatVars, browserVars, thinkVars>>

-----------------------------------------------------------------------------
(* Numbers *)

\* Resolution of the fixed-point numbers: a parameter n is held as n * Unit.
Unit == 2

Num(n)   == n * Unit
IsInt(h) == h % Unit = 0
\* ToIntegerOrInfinity of a non-negative number (String.prototype.substring).
Floor(h) == h \div Unit

Min(a, b) == IF a <= b THEN a ELSE b
Max(a, b) == IF a >= b THEN a ELSE b

\* Math.round(shown / originalLength * 100), shown a fixed-point number:
\* Math.round rounds to the nearest integer, halves upwards.
MathRoundPercent(shown, originalLength) ==
    (2 * 100 * shown + Unit * originalLength) \div (2 * Unit * originalLength)

-----------------------------------------------------------------------------
(* Strings *)

\* String.prototype.substring(a, b) for numbers a, b >= 0: both are truncated
\* to integers and clamped to the length, and swapped if a > b.
Substring(s, a, b) ==
    LET ia == Min(Floor(a), Len(s))
        ib == Min(Floor(b), Len(s))
    IN  SubSeq(s, Min(ia, ib) + 1, Max(ia, ib))

\* String.prototype.includes(sub), sub non-empty (the string is bound once,
\* for the search to read a value and not an expression).
Includes(s, sub) ==
    \E t \in {s} :
        \E i \in 1..(Len(t) - Len(sub) + 1) : SubSeq(t, i, i + Len(sub) - 1) = sub

LowerChar(c) ==
    CASE c = "A" -> "a" [] c = "B" -> "b" [] c = "C" -> "c" [] c = "D" -> "d"
      [] c = "E" -> "e" [] c = "F" -> "f" [] c = "G" -> "g" [] c = "H" -> "h"
      [] c = "I" -> "i" [] c = "J" -> "j" [] c = "K" -> "k" [] c = "L" -> "l"
      [] c = "M" -> "m" [] c = "N" -> "n" [] c = "O" -> "o" [] c = "P" -> "p"
      [] c = "Q" -> "q" [] c = "R" -> "r" [] c = "S" -> "s" [] c = "T" -> "t"
      [] c = "U" -> "u" [] c = "V" -> "v" [] c = "W" -> "w" [] c = "X" -> "x"
      [] c = "Y" -> "y" [] c = "Z" -> "z" [] OTHER -> c

\* The characters of s from the i-th on, each in lower case.
RECURSIVE LowerFrom(_, _)
LowerFrom(s, i) ==
    IF i > Len(s) THEN ""
    ELSE LowerChar(SubSeq(s, i, i)) \o LowerFrom(s, i + 1)

\* String.prototype.toLowerCase().
ToLowerCase(s) == LowerFrom(s, 1)

\* n copies of the one-character string c.
RECURSIVE Repeat(_, _)
Repeat(c, n) == IF n = 0 THEN "" ELSE c \o Repeat(c, n - 1)

\* All strings over the characters cs of length at most n.
RECURSIVE StringsUpTo(_, _)
StringsUpTo(cs, n) ==
    IF n = 0 THEN {""}
    ELSE LET shorter == StringsUpTo(cs, n - 1)
         IN  shorter \cup {t \o c : t \in shorter, c \in cs}

-----------------------------------------------------------------------------
(* The paginator: call_fetch, lines 86-110 *)

NoSuffix   == "none"
Truncated  == "truncated"   \* "Content truncated (p% shown). Call the fetch
                            \*  tool with start_index=n to get more content."
Showing    == "showing"     \* "Showing content from index s (p% of total)."

\* A slip: past the end the empty slice is returned as if it were content.
EmptySlice ==
    [sentinel |-> FALSE, slice |-> "", suffix |-> NoSuffix,
     percentShown |-> 0, nextStart |-> 0]

\* "<e>No more content available.</e>": the whole content, nothing of the text.
Sentinel ==
    [sentinel |-> TRUE, slice |-> "", suffix |-> NoSuffix,
     percentShown |-> 0, nextStart |-> 0]

\* A slip: the end of the slice given as maxLength, not startIndex + maxLength.
TruncatedContentAbsoluteEnd(text, startIndex, maxLength) ==
    Substring(text, startIndex, maxLength)

\* Line 92: content.substring(startIndex, startIndex + maxLength).
TruncatedContent(text, startIndex, maxLength) ==
    Substring(text, startIndex, startIndex + maxLength)

\* Line 98: originalLength - (startIndex + actualContentLength).
RemainingContent(originalLength, startIndex, actualContentLength) ==
    Num(originalLength) - (startIndex + Num(actualContentLength))

\* A slip: remainingContent >= 0, a notice although nothing remains.
IsTruncatedAtEnd(actualContentLength, maxLength, remainingContent) ==
    Num(actualContentLength) = maxLength /\ remainingContent >= 0

\* Line 101: actualContentLength === maxLength && remainingContent > 0.
IsTruncated(actualContentLength, maxLength, remainingContent) ==
    Num(actualContentLength) = maxLength /\ remainingContent > 0

\* A slip: the cursor one character too far.
NextStartSkipsOne(startIndex, actualContentLength) ==
    startIndex + Num(actualContentLength) + Num(1)

\* A slip: the reported cursor is the one the call came with.
NextStartStays(startIndex, actualContentLength) == startIndex

\* Line 102: startIndex + actualContentLength.
NextStart(startIndex, actualContentLength) ==
    startIndex + Num(actualContentLength)

\* A slip: startIndex >= 0, a progress notice on a first call too.
ShowsProgressFromZero(startIndex) == startIndex >= 0

\* Line 105: startIndex > 0.
ShowsProgress(startIndex) == startIndex > 0

\* Lines 103 and 106.
PercentShown(startIndex, actualContentLength, originalLength) ==
    MathRoundPercent(startIndex + Num(actualContentLength), originalLength)

\* `content` as lines 89-110 leave it, for content = text, given
\* startIndex and maxLength (fixed-point numbers).  The template literals of
\* lines 104 and 107 are kept as their parts: the slice, which notice follows
\* it, and the numbers the notice states.
paginate(text, startIndex, maxLength) ==
    LET originalLength == Len(text)
        truncatedContent == TruncatedContent(text, startIndex, maxLength)
        actualContentLength == Len(truncatedContent)
        remainingContent ==
            RemainingContent(originalLength, startIndex, actualContentLength)
        percentShown ==
            PercentShown(startIndex, actualContentLength, originalLength)
    IN  IF startIndex >= Num(originalLength) THEN Sentinel
        ELSE IF truncatedContent = "" THEN Sentinel
        ELSE IF IsTruncated(actualContentLength, maxLength, remainingContent)
             THEN [sentinel |-> FALSE, slice |-> truncatedContent,
                   suffix |-> Truncated, percentShown |-> percentShown,
                   nextStart |-> NextStart(startIndex, actualContentLength)]
        ELSE IF ShowsProgress(startIndex)
             THEN [sentinel |-> FALSE, slice |-> truncatedContent,
                   suffix |-> Showing, percentShown |-> percentShown,
                   nextStart |-> 0]
        ELSE [sentinel |-> FALSE, slice |-> truncatedContent,
              suffix |-> NoSuffix, percentShown |-> 0, nextStart |-> 0]

-----------------------------------------------------------------------------
(* The tool's parameters: FetchSchema, lines 19-26 *)

\* A field of request.params.arguments is left out (<<>>) or given (<<v>>).
Omitted  == <<>>
Given(v) == <<v>>

MAX_LENGTH_LIMIT  == 1000000
DEFAULT_MAX_LENGTH == 5000
DEFAULT_START_INDEX == 0
TIMEOUT_LIMIT     == 60000
DEFAULT_TIMEOUT   == 10000
RETRIES_LIMIT     == 5
DEFAULT_RETRIES   == 2

\* z.string().url(): the string parses as a URL.  Of URL parsing the model
\* keeps that a URL starts with a scheme, letters followed by ":".
IsLetter(c) == LowerChar(c) # c \/ c \in {"a", "b", "c", "d", "e", "f", "g",
    "h", "i", "j", "k", "l", "m", "n", "o", "p", "q", "r", "s", "t", "u", "v",
    "w", "x", "y", "z"}
IsUrl(u) ==
    \E i \in 2..Len(u) :
        /\ SubSeq(u, i, i) = ":"
        /\ \A j \in 1..(i - 1) : IsLetter(SubSeq(u, j, j))

\* .default(d): the value of a field, d when it is left out.
WithDefault(field, d) == IF field = Omitted THEN d ELSE field[1]

\* FetchSchema.parse(arguments) succeeds.
SchemaAccepts(a) ==
    /\ a.url # Omitted /\ IsUrl(a.url[1])
    /\ LET max_length == WithDefault(a.max_length, Num(DEFAULT_MAX_LENGTH))
       IN  max_length > 0 /\ max_length < Num(MAX_LENGTH_LIMIT)
    /\ WithDefault(a.start_index, Num(DEFAULT_START_INDEX)) >= 0
    /\ LET timeout == WithDefault(a.timeout, Num(DEFAULT_TIMEOUT))
       IN  timeout > 0 /\ timeout <= Num(TIMEOUT_LIMIT)
    /\ LET retries == WithDefault(a.retries, Num(DEFAULT_RETRIES))
       IN  retries >= 0 /\ retries <= Num(RETRIES_LIMIT)

\* The value FetchSchema.parse(arguments) returns when it succeeds.
FetchSchema(a) ==
    [url         |-> a.url[1],
     max_length  |-> WithDefault(a.max_length, Num(DEFAULT_MAX_LENGTH)),
     start_index |-> WithDefault(a.start_index, Num(DEFAULT_START_INDEX)),
     raw         |-> WithDefault(a.raw, FALSE),
     timeout     |-> WithDefault(a.timeout, Num(DEFAULT_TIMEOUT)),
     retries     |-> WithDefault(a.retries, Num(DEFAULT_RETRIES))]

-----------------------------------------------------------------------------
(* The content classifier: call_fetch, lines 54-78 *)

\* How many leading characters of the body are searched for "<html".
HTML_PREFIX == 100

\* Lines 55-61.  The content type is searched as it was received.
IsBinary(contentType) ==
    /\ contentType # ""
    /\ \/ Includes(contentType, "image/")
       \/ Includes(contentType, "audio/")
       \/ Includes(contentType, "video/")
       \/ Includes(contentType, "application/")
       \/ Includes(contentType, "font/")

\* A slip: the whole body is searched, not its first 100 characters.
HasHtmlAnywhere(pageRaw) == Includes(ToLowerCase(pageRaw), "<html")

\* Line 75.
HasHtmlPrefix(pageRaw) ==
    Includes(ToLowerCase(Substring(pageRaw, 0, Num(HTML_PREFIX))), "<html")

\* Line 76.
IsHtmlType(contentType) == Includes(ToLowerCase(contentType), "text/html")

\* Lines 74-78.
IsPageHtml(pageRaw, contentType) ==
    \/ HasHtmlPrefix(pageRaw)
    \/ IsHtmlType(contentType)
    \/ contentType = ""

-----------------------------------------------------------------------------
(* The article simplifier: extractContentFromHtml, lines 238-285 *)

SimplifyFailed == "<e>Page failed to be simplified from HTML</e>"

\* What extractContentFromHtml may return.  JSDOM, Readability and Turndown
\* are libraries outside the repository: which article they find in a page
\* is left open, so every page may give every one of these results.
ExtractOutcomes ==
    {SimplifyFailed,                                           \* lines 251-253
     "<e>Page failed to be simplified from HTML: boom</e>",    \* line 281
     "# Untitled Page\n\nab",                                  \* lines 255-277
     "# T | S\n\nab"}

-----------------------------------------------------------------------------
(* call_fetch after fetch_url has returned: lines 30-119 *)

NoPage == Sentinel

MkResult(kind, why, contentType, contentSize, url, page) ==
    [kind |-> kind, why |-> why, contentType |-> contentType,
     contentSize |-> contentSize, url |-> url, page |-> page]

\* Line 43: !pageRaw.
NoPageText(pageRaw) == pageRaw = ""

\* Line 63.
Refuses(a, resp) == IsBinary(resp.contentType) /\ ~a.raw

\* A slip: raw is not consulted, HTML is always simplified.
SimplifiesRawToo(a, isPageHtml) == isPageHtml

\* Line 82, isPageHtml being the value of lines 74-78.
Simplifies(a, isPageHtml) == isPageHtml /\ ~a.raw

\* Lines 80-84: the text handed to the paginator; `simplified` is what
\* extractContentFromHtml returns if it is called.
ContentOf(a, resp, isPageHtml, simplified) ==
    IF Simplifies(a, isPageHtml) THEN simplified ELSE resp.pageRaw

\* A slip: the fetched body is measured and sliced, not `content`.
EnvelopeOfBody(a, resp, content) ==
    MkResult("text", "envelope", resp.contentType, Len(resp.pageRaw), a.url,
             paginate(resp.pageRaw, a.start_index, a.max_length))

\* Lines 112-119.
Envelope(a, resp, content) ==
    MkResult("text", "envelope", resp.contentType, Len(content), a.url,
             paginate(content, a.start_index, a.max_length))

\* A slip: fetch_url's failure is thrown on to the handler, not paginated.
call_fetchRethrows(a, resp, simplified) ==
    IF ~resp.fetched
    THEN MkResult("fault", resp.pageRaw, "", 0, "", NoPage)
    ELSE IF NoPageText(resp.pageRaw)
    THEN MkResult("text", "Failed to get page text", "", 0, "", NoPage)
    ELSE IF Refuses(a, resp)
    THEN MkResult("text", "binary refusal", resp.contentType, 0, "", NoPage)
    ELSE Envelope(a, resp,
                  ContentOf(a, resp, IsPageHtml(resp.pageRaw, resp.contentType),
                            simplified))

\* The value call_fetch returns for the arguments a and fetch_url's resp
\* (fetch_url never returns null, so line 30 never holds).
call_fetch(a, resp, simplified) ==
    IF NoPageText(resp.pageRaw)
    THEN MkResult("text", "Failed to get page text", "", 0, "", NoPage)
    ELSE IF Refuses(a, resp)
    THEN MkResult("text", "binary refusal", resp.contentType, 0, "", NoPage)
    ELSE Envelope(a, resp,
                  ContentOf(a, resp, IsPageHtml(resp.pageRaw, resp.contentType),
                            simplified))

\* History: the stages of call_fetch that run for a and resp.
Stages(a, resp) ==
    IF NoPageText(resp.pageRaw) THEN {}
    ELSE IF Refuses(a, resp) THEN {"binaryCheck"}
    ELSE LET isPageHtml == IsPageHtml(resp.pageRaw, resp.contentType)
         IN  {"binaryCheck", "classify", "paginate"}
             \cup (IF isPageHtml THEN {"html"} ELSE {})
             \cup (IF Simplifies(a, isPageHtml) THEN {"simplify"} ELSE {})

-----------------------------------------------------------------------------
(* Spec: the fetch server serving tool calls, one at a time.               *)
(* A call is cut at its awaits: fetch() (line 197), response.text()        *)
(* (line 208) and the pause between attempts (line 218).                   *)

\* Largest max_length and start_index (whole numbers) a modelled call gives,
\* short of the one start_index that lies past every modelled text.
MaxLengthArg == 1
MaxStartArg  == 1

\* Two hosts: one that serves pages of every kind, one that mostly fails.
PagesUrl == "http://pages.test/p"
FlakyUrl == "http://flaky.test/p"
BadUrl   == "no url"

Arguments(url, max_length, start_index, raw, timeout, retries) ==
    [url |-> url, max_length |-> max_length, start_index |-> start_index,
     raw |-> raw, timeout |-> timeout, retries |-> retries]

\* Calls that vary retries (any number the schema admits, and the nearest
\* ones it rejects) and leave the rest to the defaults.
RetryArguments ==
    {Arguments(Given(FlakyUrl), Omitted, Omitted, Omitted, Omitted, r) :
        r \in {Omitted} \cup {Given(h) : h \in -1..(Num(RETRIES_LIMIT) + 1)}}

\* Calls that vary max_length, start_index and raw, and do not retry.
PageArguments ==
    {Arguments(Given(PagesUrl), m, s, raw, Omitted, Given(0)) :
        m \in {Omitted} \cup {Given(h) : h \in 1..Num(MaxLengthArg)},
        s \in {Omitted} \cup {Given(h) : h \in 1..Num(MaxStartArg)}
              \cup {Given(Num(2 * HTML_PREFIX))},
        raw \in {Omitted, Given(TRUE)}}

\* Calls the schema rejects for url, max_length, start_index or timeout.
OtherArguments ==
    {Arguments(u, Omitted, Omitted, Omitted, t, Omitted) :
        u \in {Omitted, Given(BadUrl), Given(PagesUrl)},
        t \in {Given(0), Given(Num(TIMEOUT_LIMIT) + 1)}}
    \cup {Arguments(Given(PagesUrl), m, Omitted, Omitted, Omitted, Omitted) :
            m \in {Given(0), Given(Num(MAX_LENGTH_LIMIT))}}
    \cup {Arguments(Given(PagesUrl), Omitted, Given(-1), Omitted, Omitted, Omitted)}

Requests ==
    {[name |-> "fetch", arguments |-> Given(a)] :
        a \in RetryArguments \cup PageArguments \cup OtherArguments}
    \cup {[name |-> "fetch", arguments |-> Omitted],
          [name |-> "other", arguments |-> Given(CHOOSE a \in RetryArguments : TRUE)]}

\* response.status of a response; response.ok is 200 <= status <= 299.
Statuses == {200, 404, 503}
StatusOk(status) == status >= 200 /\ status <= 299

\* n - 1 filler characters and then "<html": the tag ends at character n + 4.
HtmlFrom(n) == Repeat("x", n - 1) \o "<html"

\* Bodies a server sends.
Bodies ==
    {"", "ab", "abcde", "<html>ab", "<HTML>", "<!DOCTYPE html><html>",
     HtmlFrom(HTML_PREFIX - 4), HtmlFrom(HTML_PREFIX - 3)}

\* content-type headers a server sends that name no binary type
\* ("" for no header: line 207), and ones that do.
TextTypes ==
    {"", "text/plain", "text/html", "Text/HTML; charset=utf-8", "Image/PNG"}
BinaryTypes ==
    {"image/png", "application/pdf", "application/json", "audio/mpeg",
     "video/mp4", "font/woff2"}
ContentTypes == TextTypes \cup BinaryTypes

Page(body, contentType) == [body |-> body, contentType |-> contentType]

\* The responses a host may give with a 2xx status.
Served(url) ==
    IF url = FlakyUrl
    THEN {Page("ab", "text/plain"), Page("<html>ab", "text/html")}
    ELSE {Page(b, t) : b \in Bodies, t \in TextTypes}
         \cup {Page(b, t) : b \in {"", "ab", "<html>ab"}, t \in BinaryTypes}

Error(name, message) == [name |-> name, message |-> message]
\* What fetch() rejects with when the network fails, and when it is aborted.
NetworkError == Error("TypeError", "fetch failed")
AbortError   == Error("AbortError", "This operation was aborted")
\* Line 205.
HttpError(status) == Error("Error", "HTTP error! status: " \o ToString(status))

\* A number as a template literal shows it.
NumberText(h) ==
    IF IsInt(h) THEN ToString(h \div Unit)
    ELSE ToString(h \div Unit) \o "." \o ToString(((h % Unit) * 10) \div Unit)

\* A slip: the failure body is returned without a content type.
FailureBodyUntyped(e, retries) ==
    [pageRaw |-> "<e>Failed to fetch: "
                 \o (IF e.name = "AbortError" THEN "Request timed out"
                     ELSE e.message)
                 \o " after " \o NumberText(retries + Num(1)) \o " attempts</e>",
     contentType |-> "",
     fetched |-> FALSE]

\* Lines 226-233: what fetch_url returns when it gives up with lastError e.
FailureBody(e, retries) ==
    [pageRaw |-> "<e>Failed to fetch: "
                 \o (IF e.name = "AbortError" THEN "Request timed out"
                     ELSE e.message)
                 \o " after " \o NumberText(retries + Num(1)) \o " attempts</e>",
     contentType |-> "text/plain",
     fetched |-> FALSE]

\* No tool call is being served.
FetchIdle ==
    /\ pc = "idle"
    /\ request = <<>>
    /\ args = <<>>
    /\ attempt = 0
    /\ lastError = <<>>
    /\ timers = {}
    /\ pendingType = ""
    /\ response = <<>>
    /\ result = <<>>
    /\ attempts = 0
    /\ pauses = 0
    /\ netFailures = 0
    /\ ran = {}
    /\ original = <<>>
    /\ outcome = "none"

\* The calls that run at once in SpecConcurrent.
Calls == {"a", "b"}

\* No call of SpecConcurrent has started.
ConcIdle ==
    /\ cPc = [c \in Calls |-> "idle"]
    /\ cRetries = [c \in Calls |-> 0]
    /\ cAttempt = [c \in Calls |-> 0]
    /\ cTimers = {}
    /\ cLastAbort = <<>>

\* The browser server after start-up (lines 11-14): no browser, no page, no
\* call in progress.
NoCall == [pc |-> "idle", tool |-> "", pageId |-> "", inst |-> 0, page |-> <<>>]
NoPages == [id \in {} |-> <<>>]
BrowserStart ==
    /\ browser = 0
    /\ pages = NoPages
    /\ launched = 0
    /\ up = {}
    /\ events = {}
    /\ calls = [c \in Calls |-> NoCall]

\* No result has been returned yet; no history is kept.
NoResult == [kind |-> "none", tool |-> "", pageId |-> "", text |-> ""]
Unlogged == [kind |-> "unlogged", tool |-> "", pageId |-> "", text |-> ""]

BrowserIdle ==
    /\ BrowserStart
    /\ last = NoResult
    /\ revoked = {}
    /\ closedIds = {}

\* No call of sequential_thinking has been answered yet.
NoThoughtResult ==
    [kind |-> "none", text |-> "", thoughtNumber |-> 0, totalThoughts |-> 0,
     nextThoughtNeeded |-> FALSE, branches |-> {},
     thoughtHistoryLength |-> 0, needsMoreThoughts |-> FALSE]

\* `branches = {}` (line 25): an object with no own key.
NoBranches == [id \in {} |-> <<>>]

\* The thinking server after `new SequentialThinking()` (lines 24-25, 133).
ThinkIdle ==
    /\ thoughtHistory = <<>>
    /\ branches = NoBranches
    /\ thoughtResult = NoThoughtResult
    /\ accepted = <<>>

\* The server of SpecRepeat has served no call.
RepeatIdle ==
    /\ rLast = <<>>
    /\ rMemo = <<>>
    /\ rBetween = 0

Init ==
    /\ FetchIdle
    /\ ConcIdle
    /\ ThinkIdle
    /\ BrowserIdle
    /\ RepeatIdle
    /\ pgText = ""
    /\ pgMax = Num(1)
    /\ pgStart = 0
    /\ pgOut = Sentinel
    /\ pgAcc = ""
    /\ pgChain = "fresh"
    /\ pgCalls = 0

\* fetch_url returns resp to call_fetch (line 29), which runs to its end
\* (lines 30-119), and the handler returns its result (line 156).
Return(resp) ==
    LET stages == Stages(args, resp)
    IN  \E simplified \in IF "simplify" \in stages THEN ExtractOutcomes ELSE {""} :
            /\ response' = Given(resp)
            /\ result' = call_fetch(args, resp, simplified)
            /\ ran' = stages
            /\ original' = IF "paginate" \in stages
                          THEN Given(ContentOf(args, resp,
                                   IsPageHtml(resp.pageRaw, resp.contentType),
                                   simplified))
                          ELSE <<>>
            /\ pc' = "returned"

\* A slip: one retry too few.
RetriesOneFewer(e, retries) ==
    /\ Num(attempt) < retries - Num(1)
    /\ \/ ~Includes(e.message, "HTTP error")
       \/ e.name = "AbortError"

\* A slip: attempt <= retries, so the last attempt too is followed by a pause.
RetriesPausesAtLast(e, retries) ==
    /\ Num(attempt) <= retries
    /\ \/ ~Includes(e.message, "HTTP error")
       \/ e.name = "AbortError"

\* A slip: every failed attempt is retried, whatever the error.
RetriesAnyError(e, retries) == Num(attempt) < retries

\* Lines 213-216: the attempt that failed with e is followed by another.
Retries(e, retries) ==
    /\ Num(attempt) < retries
    /\ \/ ~Includes(e.message, "HTTP error")
       \/ e.name = "AbortError"

\* Lines 209-235: the catch block for the error e, and what follows it:
\* the pause before the next attempt, or the failure body.
Catch(e) ==
    /\ lastError' = Given(e)
    /\ IF Retries(e, args.retries)
       THEN /\ pc' = "pausing"
            /\ pauses' = pauses + 1
            /\ UNCHANGED <<response, result, ran, original>>
       ELSE /\ Return(FailureBody(e, args.retries))
            /\ UNCHANGED pauses

\* Lines 194-197: the attempt numbered k arms its timer and calls fetch().
StartAttempt(k, armed) ==
    /\ attempt' = k
    /\ timers' = armed \cup {k}
    /\ attempts' = attempts + 1
    /\ pc' = "fetching"

\* A slip: only the url is validated, the numbers are taken as they come.
ParsesUrlOnly(req) ==
    LET a == req.arguments[1] IN a.url # Omitted /\ IsUrl(a.url[1])

\* Line 147: FetchSchema.parse(request.params.arguments) does not throw.
Parses(req) == SchemaAccepts(req.arguments[1])

\* The handler, lines 139-168, up to the first await of the call.
CallTool(req) ==
    /\ pc = "idle"
    /\ request' = req
    /\ lastError' = <<>>
    /\ pendingType' = ""
    /\ response' = <<>>
    /\ pauses' = 0
    /\ netFailures' = 0
    /\ ran' = {}
    /\ original' = <<>>
    /\ outcome' = "none"
    /\ IF req.arguments = Omitted
       THEN /\ result' = MkResult("fault", "Arguments are required", "", 0, "", NoPage)
            /\ pc' = "returned"
            /\ args' = <<>>
            /\ attempt' = 0 /\ attempts' = 0 /\ timers' = {}
       ELSE IF req.name # "fetch"
       THEN /\ result' = MkResult("fault", "Unknown tool", "", 0, "", NoPage)
            /\ pc' = "returned"
            /\ args' = <<>>
            /\ attempt' = 0 /\ attempts' = 0 /\ timers' = {}
       ELSE IF ~Parses(req)
       THEN /\ result' = MkResult("fault", "Invalid input", "", 0, "", NoPage)
            /\ pc' = "returned"
            /\ args' = <<>>
            /\ attempt' = 0 /\ attempts' = 0 /\ timers' = {}
       ELSE /\ args' = FetchSchema(req.arguments[1])
            /\ result' = <<>>
            /\ attempt' = 0
            /\ timers' = {0}
            /\ attempts' = 1
            /\ pc' = "fetching"
    /\ UNCHANGED <<pageVars, concVars, repeatVars, browserVars, thinkVars>>

\* The result (or the fault) has gone to the client; the server waits for
\* the next request.  Timers that earlier attempts left armed are followed
\* no further: all they can do is abort a settled fetch (StaleTimerFires).
Respond ==
    /\ pc = "returned"
    /\ pc' = "idle"
    /\ request' = <<>>
    /\ args' = <<>>
    /\ attempt' = 0
    /\ lastError' = <<>>
    /\ timers' = {}
    /\ pendingType' = ""
    /\ response' = <<>>
    /\ result' = <<>>
    /\ attempts' = 0
    /\ pauses' = 0
    /\ netFailures' = 0
    /\ ran' = {}
    /\ original' = <<>>
    /\ outcome' = "none"
    /\ UNCHANGED <<pageVars, concVars, repeatVars, browserVars, thinkVars>>

\* fetch() resolves with a response: its status and content-type header.
FetchResolves(status, contentType) ==
    /\ pc = "fetching"
    /\ \E page \in Served(args.url) : page.contentType = contentType
    /\ timers' = timers \ {attempt}                      \* line 202
    /\ IF StatusOk(status)
       THEN /\ pendingType' = contentType                \* line 207
            /\ pc' = "reading"                           \* line 208
            /\ UNCHANGED <<lastError, response, result, ran, original,
                           pauses, outcome>>
       ELSE /\ Catch(HttpError(status))                  \* line 205
            /\ outcome' = "http"
            /\ UNCHANGED pendingType
    /\ UNCHANGED <<request, args, attempt, attempts, netFailures, pageVars, concVars, repeatVars, browserVars, thinkVars>>

\* fetch() rejects: the network failed.  The timer of the attempt stays armed.
FetchRejects ==
    /\ pc = "fetching"
    /\ Catch(NetworkError)
    /\ netFailures' = netFailures + 1
    /\ outcome' = "network"
    /\ UNCHANGED <<request, args, attempt, timers, pendingType, attempts, pageVars, concVars, repeatVars, browserVars, thinkVars>>

\* The timer of the running attempt fires while fetch() is pending:
\* controller.abort() (line 195) makes fetch() reject with an AbortError.
TimeoutFires ==
    /\ pc = "fetching"
    /\ attempt \in timers
    /\ timers' = timers \ {attempt}
    /\ Catch(AbortError)
    /\ netFailures' = netFailures + 1
    /\ outcome' = "timeout"
    /\ UNCHANGED <<request, args, attempt, pendingType, attempts, pageVars, concVars, repeatVars, browserVars, thinkVars>>

\* A timer fires whose attempt is over: abort() of a settled fetch does nothing.
StaleTimerFires(k) ==
    /\ k \in timers
    /\ ~(pc = "fetching" /\ k = attempt)
    /\ timers' = timers \ {k}
    /\ UNCHANGED <<pc, request, args, attempt, lastError, pendingType, response,
                   result, attempts, pauses, netFailures, ran, original,
                   outcome, pageVars, concVars, repeatVars, browserVars, thinkVars>>

\* response.text() resolves with the body (line 208): fetch_url returns.
BodyResolves(body) ==
    /\ pc = "reading"
    /\ Page(body, pendingType) \in Served(args.url)
    /\ Return([pageRaw |-> body, contentType |-> pendingType, fetched |-> TRUE])
    /\ outcome' = "ok"
    /\ UNCHANGED <<request, args, attempt, lastError, timers, pendingType,
                   attempts, pauses, netFailures, pageVars, concVars, repeatVars, browserVars, thinkVars>>

\* response.text() rejects: the connection broke while the body was read.
BodyRejects ==
    /\ pc = "reading"
    /\ Catch(NetworkError)
    /\ netFailures' = netFailures + 1
    /\ outcome' = "body"
    /\ UNCHANGED <<request, args, attempt, timers, pendingType, attempts, pageVars, concVars, repeatVars, browserVars, thinkVars>>

\* The pause of line 218 ends: attempt++ and the loop test of line 192.
PauseEnds ==
    /\ pc = "pausing"
    /\ IF Num(attempt + 1) <= args.retries
       THEN /\ StartAttempt(attempt + 1, timers)
            /\ UNCHANGED <<lastError, response, result, ran, original>>
       ELSE /\ Return(FailureBody(lastError[1], args.retries))   \* lines 226-233
            /\ attempt' = attempt + 1
            /\ UNCHANGED <<lastError, timers, attempts>>
    /\ UNCHANGED <<request, args, pendingType, pauses, netFailures, outcome,
                   pageVars, concVars, repeatVars, browserVars, thinkVars>>

Next ==
    \/ \E req \in Requests : CallTool(req)
    \/ Respond
    \/ \E status \in Statuses, contentType \in ContentTypes :
           FetchResolves(status, contentType)
    \/ FetchRejects
    \/ TimeoutFires
    \/ \E k \in timers : StaleTimerFires(k)
    \/ \E body \in Bodies : BodyResolves(body)
    \/ BodyRejects
    \/ PauseEnds

Spec == Init /\ [][Next]_vars

\* Fairness.  It is stated on what a step does to timers and pc, which is
\* all that tells these steps from the others.

\* A timer that is armed goes off or is cleared (lines 195, 202): the
\* runtime fires every timer that is not cleared.
TimerGoesOff == \E k \in timers : timers' = timers \ {k}

\* The pause of line 218 is over after its second.
PauseIsOver == pc = "pausing" /\ pc' \in {"fetching", "returned"}

\* response.text() (line 208) settles: the body arrives or the read fails.
BodyReadSettles == pc = "reading" /\ pc' \in {"returned", "pausing"}

\* Spec with timers that fire and pauses that end; what the server does,
\* and whether it ever does anything, is left open.
SpecTimers == Spec /\ WF_timers(TimerGoesOff) /\ WF_pc(PauseIsOver)

\* SpecTimers with a network that gives every body read an outcome.
SpecSettles == SpecTimers /\ WF_pc(BodyReadSettles)

-----------------------------------------------------------------------------
(* SpecPaginate: one client paginating one text.                           *)
(* The client calls with any start_index (ClientProbe) or walks the text   *)
(* from index 0 by the reported cursors (ClientFirstCall, ClientFollow).   *)

\* Longest text over PageAlphabet, and largest max_length, a client uses.
MaxTextLen == 4
MaxPageLen == 4

PageAlphabet == {"a", "b"}
\* The text of the spec's two paginate scenarios.
ScenarioText == "0123456789"
PageTexts == StringsUpTo(PageAlphabet, MaxTextLen) \cup {ScenarioText}
\* max_length as FetchSchema admits it: any number > 0.
PageMaxLengths == 1..Num(MaxPageLen)
\* start_index as FetchSchema admits it: any number >= 0; up to past the end.
PageStarts(text) == 0..Num(Len(text) + 1)

InitPaginate ==
    /\ FetchIdle
    /\ ConcIdle
    /\ ThinkIdle
    /\ BrowserIdle
    /\ RepeatIdle
    /\ pgText \in PageTexts
    /\ pgMax \in PageMaxLengths
    /\ pgStart = 0
    /\ pgOut = Sentinel
    /\ pgAcc = ""
    /\ pgChain = "fresh"
    /\ pgCalls = 0

\* A call with an arbitrary start_index > 0; it is not part of a walk.
ClientProbe(s) ==
    /\ s > 0
    /\ pgStart' = s
    /\ pgOut' = paginate(pgText, s, pgMax)
    /\ pgAcc' = ""
    /\ pgChain' = "probe"
    /\ pgCalls' = 0
    /\ UNCHANGED <<pgText, pgMax, fetchVars, concVars, repeatVars, browserVars, thinkVars>>

\* What a walking client does with the output of its call: keep the slice,
\* and go on only with a reported next start_index.
Walk(acc, out) ==
    /\ pgOut' = out
    /\ pgAcc' = IF out.sentinel THEN acc ELSE acc \o out.slice
    /\ pgChain' = IF ~out.sentinel /\ out.suffix = Truncated
                  THEN "open" ELSE "ended"

\* The first call of a walk: start_index 0.
ClientFirstCall ==
    /\ pgStart' = 0
    /\ pgCalls' = 1
    /\ Walk("", paginate(pgText, 0, pgMax))
    /\ UNCHANGED <<pgText, pgMax, fetchVars, concVars, repeatVars, browserVars, thinkVars>>

\* The next call of a walk: the start_index the previous output reported.
ClientFollow ==
    /\ pgChain = "open"
    /\ pgStart' = pgOut.nextStart
    /\ pgCalls' = pgCalls + 1
    /\ Walk(pgAcc, paginate(pgText, pgOut.nextStart, pgMax))
    /\ UNCHANGED <<pgText, pgMax, fetchVars, concVars, repeatVars, browserVars, thinkVars>>

NextPaginate ==
    \/ \E s \in PageStarts(pgText) : ClientProbe(s)
    \/ ClientFirstCall
    \/ ClientFollow

SpecPaginate == InitPaginate /\ [][NextPaginate]_vars

PgCalled == pgChain # "fresh"

-----------------------------------------------------------------------------
(* Properties of fetch_url and call_fetch, checked under Spec *)

\* A call whose parameters were accepted is being served or has returned.
Serving == attempts > 0
Returned == Serving /\ pc = "returned"
\* fetch_url gave up: what it returned is its failure body.
GaveUp == Returned /\ ~response[1].fetched
HttpFailed ==
    lastError # <<>> /\ Includes(lastError[1].message, "HTTP error! status: ")

\* C1. Retry bound.  A call never makes more than retries + 1 HTTP attempts;
\* and a call (retries a whole number, as the attempts it counts) all of
\* whose attempts failed with a network error or a timeout has made exactly
\* retries + 1 attempts when it returns, and returns a failure body.
RetryBound ==
    /\ Serving => Num(attempts) <= args.retries + Num(1)
    /\ (Returned /\ IsInt(args.retries) /\ netFailures = attempts)
          => /\ Num(attempts) = args.retries + Num(1)
             /\ GaveUp
             /\ response[1].contentType = "text/plain"
             /\ Includes(response[1].pageRaw, "<e>Failed to fetch: ")

RetryBoundWitness ==
    /\ Returned /\ netFailures = attempts
    /\ args.retries = Num(3) /\ attempts = 4 /\ GaveUp

\* C2. A non-2xx status is terminal, for every retries in 0..5: the attempt
\* that received it is the last one (attempts = attempt + 1), no pause
\* follows it (as many pauses as earlier attempts), and the call has returned
\* a failure that carries "HTTP error! status: <code>".
NonOkTerminal ==
    HttpFailed =>
        /\ pc = "returned"
        /\ attempts = attempt + 1
        /\ pauses = attempt
        /\ GaveUp
        /\ Includes(response[1].pageRaw, lastError[1].message)
        /\ result.kind = "text"

NonOkTerminalWitness ==
    /\ HttpFailed /\ args.retries = Num(RETRIES_LIMIT)
    /\ attempts = 2 /\ pauses = 1
    /\ Includes(response[1].pageRaw, "HTTP error! status: 404")

\* The text call_fetch has to paginate is known: the body, unless the
\* simplifier is due, and then the text whose size the envelope states.
TextLength ==
    IF Simplifies(args, IsPageHtml(response[1].pageRaw, response[1].contentType))
    THEN result.contentSize ELSE Len(response[1].pageRaw)
TextKnown ==
    \/ ~Simplifies(args, IsPageHtml(response[1].pageRaw, response[1].contentType))
    \/ result.why = "envelope"

\* C6. Pagination exhaustion at pipeline level: after a successful fetch
\* (the empty body included) whose text is not refused as binary, a call
\* with start_index >= the length of the text to paginate returns the
\* sentinel in the envelope, never another message.
ExhaustionReportsSentinel ==
    (/\ Returned /\ response[1].fetched
     /\ ~Refuses(args, response[1]) /\ TextKnown
     /\ args.start_index >= Num(TextLength))
        => (result.why = "envelope" /\ result.page.sentinel)

\* What holds of the code: the same, for a body that is not empty.
ExhaustionReportsSentinelNonEmpty ==
    (/\ Returned /\ response[1].fetched /\ response[1].pageRaw # ""
     /\ ~Refuses(args, response[1])
     /\ args.start_index >= Num(TextLength))
        => (result.why = "envelope" /\ result.page.sentinel)

\* The content type contains one of the five markers, as received.
NamesBinaryType(contentType) ==
    \E marker \in {"image/", "audio/", "video/", "application/", "font/"} :
        \E i \in 1..(Len(contentType) - Len(marker) + 1) :
            SubSeq(contentType, i, i + Len(marker) - 1) = marker

\* C9. Binary refusal: a fetched content type that contains image/, audio/,
\* video/, application/ or font/, with raw false, gives the refusal message
\* naming that type, and neither the simplifier nor the paginator runs,
\* whatever the body.
BinaryRefusal ==
    (/\ Returned /\ response[1].fetched
     /\ NamesBinaryType(response[1].contentType) /\ ~args.raw)
        => /\ result.why = "binary refusal"
           /\ result.contentType = response[1].contentType
           /\ "simplify" \notin ran /\ "paginate" \notin ran

\* What holds of the code: the same, for a body that is not empty.
BinaryRefusalNonEmpty ==
    (/\ Returned /\ response[1].fetched /\ response[1].pageRaw # ""
     /\ NamesBinaryType(response[1].contentType) /\ ~args.raw)
        => /\ result.why = "binary refusal"
           /\ result.contentType = response[1].contentType
           /\ "simplify" \notin ran /\ "paginate" \notin ran

\* "<html", in any case, lies within the first 100 characters of the body.
HtmlInFirstHundred(body) ==
    \E i \in 1..(HTML_PREFIX - Len("<html") + 1) :
        /\ i + Len("<html") - 1 <= Len(body)
        /\ ToLowerCase(SubSeq(body, i, i + Len("<html") - 1)) = "<html"

\* A payload that is not binary has been classified.
ClassifiedText == Returned /\ "classify" \in ran
                  /\ ~NamesBinaryType(response[1].contentType)

-----------------------------------------------------------------------------
(* Properties of the paginator, checked under SpecPaginate *)

\* p is (shown / Unit) / total * 100 rounded to the nearest integer, halves up.
IsRounded(p, shown, total) ==
    /\ (2 * p - 1) * Unit * total <= 2 * 100 * shown
    /\ 2 * 100 * shown < (2 * p + 1) * Unit * total

\* The characters of text at the indices i, from <= i < to (whole numbers).
Range(text, from, to) == SubSeq(text, from + 1, Min(to, Len(text)))

\* C3. Round-trip pagination: for every text and every whole max_length > 0,
\* the slices of a walk that starts at index 0 and follows each reported
\* next start_index, joined in order, are the text when the walk ends; and
\* while a next start_index n is reported they are the first n characters.
RoundTripPagination ==
    IsInt(pgMax) =>
        /\ pgChain = "ended" => pgAcc = pgText
        /\ pgChain = "open" =>
              /\ IsInt(pgOut.nextStart)
              /\ pgAcc = Range(pgText, 0, Floor(pgOut.nextStart))
              /\ Floor(pgOut.nextStart) < Len(pgText)

RoundTripPaginationWitness ==
    /\ pgChain = "ended" /\ pgText = ScenarioText /\ pgMax = Num(4)
    /\ pgStart = Num(8) /\ pgAcc = pgText

\* C4. Slice exactness: for start_index < length(text) and max_length > 0
\* (whole numbers) the content before any status suffix is
\* text[start_index, min(start_index + max_length, length(text))).
SliceExactness ==
    (/\ PgCalled /\ IsInt(pgStart) /\ IsInt(pgMax)
     /\ pgStart < Num(Len(pgText)))
        => /\ ~pgOut.sentinel
           /\ pgOut.slice
                = Range(pgText, Floor(pgStart), Floor(pgStart) + Floor(pgMax))

SliceExactnessWitness ==
    /\ PgCalled /\ pgText = "abab" /\ pgStart = Num(1) /\ pgMax = Num(2)
    /\ pgOut.slice = "ba"

\* C5. Paginator sentinel: for start_index >= length(text), whatever
\* max_length, the content is the sentinel: no character of the text and no
\* status suffix.
SentinelPastEnd ==
    (PgCalled /\ pgStart >= Num(Len(pgText)))
        => pgOut.sentinel /\ pgOut.slice = "" /\ pgOut.suffix = NoSuffix

SentinelPastEndWitness ==
    /\ PgCalled /\ pgText = "ab" /\ pgStart = Num(2) /\ pgOut.sentinel

\* The truncation condition of an output that is not the sentinel.
TruncationHolds ==
    /\ Num(Len(pgOut.slice)) = pgMax
    /\ pgStart + Num(Len(pgOut.slice)) < Num(Len(pgText))

ProgressNotice ==
    /\ (PgCalled /\ ~pgOut.sentinel) =>
          /\ pgOut.suffix \in {Truncated, Showing, NoSuffix}
          /\ (~TruncationHolds /\ pgStart > 0) =>
                /\ pgOut.suffix = Showing
                /\ IsRounded(pgOut.percentShown,
                             pgStart + Num(Len(pgOut.slice)), Len(pgText))
          /\ (~TruncationHolds /\ pgStart = 0) =>
                /\ pgOut.suffix = NoSuffix
                /\ IsInt(pgMax) => pgOut.slice = pgText
    /\ (PgCalled /\ pgText = ScenarioText /\ pgStart = Num(8) /\ pgMax = Num(4)) =>
          /\ pgOut.slice = "89" /\ pgOut.suffix = Showing
          /\ pgOut.percentShown = 100

ProgressNoticeWitness ==
    /\ PgCalled /\ pgText = ScenarioText /\ pgStart = Num(8) /\ pgMax = Num(4)
    /\ pgOut.suffix = Showing

-----------------------------------------------------------------------------
(* Properties of call_fetch's pipeline, checked under Spec *)

\* C11. Raw mode and plain-text pass-through: the simplifier runs iff the
\* payload was classified HTML and raw is false; whenever the paginator runs
\* without the simplifier (raw true, or plain text) the text it is handed is
\* the fetched body unchanged; and with raw true nothing is refused as binary.
RawPassThrough ==
    Returned =>
        /\ "simplify" \in ran <=> ("html" \in ran /\ ~args.raw)
        /\ ("paginate" \in ran /\ "simplify" \notin ran)
              => original = Given(response[1].pageRaw)
        /\ args.raw => (result.why # "binary refusal"
                        /\ (response[1].pageRaw # "" => "paginate" \in ran))

RawPassThroughWitness ==
    /\ Returned /\ args.raw /\ response[1].contentType = "image/png"
    /\ response[1].pageRaw = "<html>ab" /\ "html" \in ran
    /\ "simplify" \notin ran /\ original = Given("<html>ab")
    /\ result.page.slice = "<"

\* The simplifier ran and found no article (lines 251-253).
NoArticle == Returned /\ "simplify" \in ran /\ original = Given(SimplifyFailed)

\* C12. Simplification failure is paginated uniformly: when extraction finds
\* no article, "<e>Page failed to be simplified from HTML</e>" is the content:
\* the envelope states its length as the content size, and start_index and
\* max_length slice it, with the sentinel and the notices, as any other text.
SimplifyFailurePaginated ==
    NoArticle =>
        LET total == Len(SimplifyFailed)
            start == args.start_index
            page  == result.page
            truncation == /\ Num(Len(page.slice)) = args.max_length
                          /\ start + Num(Len(page.slice)) < Num(total)
        IN  /\ result.why = "envelope"
            /\ result.contentSize = total
            /\ start >= Num(total) => page.sentinel
            /\ (IsInt(start) /\ IsInt(args.max_length) /\ start < Num(total))
                  => /\ ~page.sentinel
                     /\ page.slice = Range(SimplifyFailed, Floor(start),
                                           Floor(start) + Floor(args.max_length))
            /\ ~page.sentinel =>
                  /\ page.suffix = Truncated <=> truncation
                  /\ page.suffix = Truncated =>
                        /\ page.nextStart = start + Num(Len(page.slice))
                        /\ IsRounded(page.percentShown,
                                     start + Num(Len(page.slice)), total)
                  /\ (~truncation /\ start > 0) =>
                        /\ page.suffix = Showing
                        /\ IsRounded(page.percentShown,
                                     start + Num(Len(page.slice)), total)
                  /\ (~truncation /\ start = 0) => page.suffix = NoSuffix

SimplifyFailurePaginatedWitness ==
    /\ NoArticle /\ args.start_index = Num(1) /\ args.max_length = Num(1)
    /\ result.contentSize = 45 /\ result.page.slice = "e"
    /\ result.page.suffix = Truncated /\ result.page.nextStart = Num(2)
    /\ result.page.percentShown = 4

-----------------------------------------------------------------------------
(* Properties of the handler and of fetch_url's failures, checked under Spec *)

\* The request being served is a fetch call with arguments.
FetchCall ==
    request # <<>> /\ request.name = "fetch" /\ request.arguments # Omitted

\* C13. Validation precedes the network: a fetch call whose parameters
\* violate the schema has raised the "Invalid input" fault and issues no
\* HTTP attempt; and whenever a call has issued an attempt, its parameters
\* passed the schema and the call works on the parsed values.
ValidationPrecedesNetwork ==
    /\ (FetchCall /\ ~SchemaAccepts(request.arguments[1]))
          => /\ attempts = 0 /\ timers = {} /\ pc = "returned"
             /\ result.kind = "fault" /\ result.why = "Invalid input"
    /\ attempts > 0
          => /\ FetchCall /\ SchemaAccepts(request.arguments[1])
             /\ args = FetchSchema(request.arguments[1])

ValidationPrecedesNetworkWitness ==
    /\ FetchCall /\ request.arguments[1].url = Given(PagesUrl)
    /\ request.arguments[1].timeout = Given(0)
    /\ result.why = "Invalid input" /\ attempts = 0

StatesAttempts(body, n) == Includes(body, " after " \o n \o " attempts</e>")

\* C15. The attempt count a failure body states is the number of HTTP
\* attempts the call made, whatever the failure (network error, timeout,
\* non-2xx status) and whatever retries.
FailureStatesAttemptsMade ==
    GaveUp => StatesAttempts(response[1].pageRaw, ToString(attempts))

\* What holds of the code: the body states retries + 1 (line 232), which is
\* the number of attempts made only if none of them met a non-2xx status.
FailureStatesRetriesPlusOne ==
    GaveUp =>
        /\ StatesAttempts(response[1].pageRaw,
                          NumberText(args.retries + Num(1)))
        /\ (IsInt(args.retries) /\ ~HttpFailed)
              => StatesAttempts(response[1].pageRaw, ToString(attempts))

\* C16. Failure body kind: when fetch_url gives up, the body says "Request
\* timed out" iff the last attempt was aborted by its timer, and otherwise
\* gives the message of the last attempt's error; it comes with the content
\* type text/plain, so call_fetch takes it for plain text: it is paginated
\* as it is, neither refused nor simplified.
FailureBodyKind ==
    GaveUp =>
        /\ Includes(response[1].pageRaw, "<e>Failed to fetch: Request timed out after ")
              <=> outcome = "timeout"
        /\ outcome \in {"network", "body"}
              => Includes(response[1].pageRaw, "<e>Failed to fetch: fetch failed after ")
        /\ outcome = "http"
              => \E status \in Statuses :
                    /\ ~StatusOk(status)
                    /\ Includes(response[1].pageRaw,
                          "<e>Failed to fetch: HTTP error! status: "
                          \o ToString(status) \o " after ")
        /\ outcome \in {"timeout", "network", "body", "http"}
        /\ response[1].contentType = "text/plain"
        /\ result.why = "envelope" /\ result.contentType = "text/plain"
        /\ ran = {"binaryCheck", "classify", "paginate"}
        /\ original = Given(response[1].pageRaw)
        /\ result.contentSize = Len(response[1].pageRaw)

FailureBodyKindWitness ==
    /\ GaveUp /\ outcome = "timeout" /\ args.retries = 0
    /\ original = Given("<e>Failed to fetch: Request timed out after 1 attempts</e>")
    /\ ~result.page.sentinel /\ result.page.suffix = NoSuffix

\* C17. Pause ordering, within one call (retries a whole number): while a
\* pause runs there have been as many pauses as attempts, and otherwise one
\* fewer, so a returned call has made attempts - 1 pauses; an attempt after
\* the first starts only as a pause ends, and every pause that ends is
\* followed at once by an attempt: none follows the final attempt, be it
\* successful, terminal or the last one allowed.
PauseOrdering ==
    /\ []((Serving /\ IsInt(args.retries)) =>
            /\ pc = "pausing" => pauses = attempts
            /\ pc \in {"fetching", "reading", "returned"}
                  => pauses = attempts - 1)
    /\ [][(Serving /\ IsInt(args.retries)) =>
            /\ attempts' = attempts + 1
                  => (pc = "pausing" /\ pc' = "fetching" /\ pauses' = pauses)
            /\ pauses' = pauses + 1
                  => (pc \in {"fetching", "reading"} /\ pc' = "pausing"
                      /\ attempts' = attempts)
            /\ (pc = "pausing" /\ pc' # "pausing")
                  => (pc' = "fetching" /\ attempts' = attempts + 1)]_vars

PauseOrderingWitness ==
    /\ Returned /\ args.retries = Num(RETRIES_LIMIT) /\ outcome = "ok"
    /\ attempts = 3 /\ pauses = 2 /\ netFailures = 2

-----------------------------------------------------------------------------
(* Properties of fetch_url's timers, checked under SpecTimers *)

\* C18. Every attempt is bounded by its timeout, so every call returns in
\* the end: timers that are armed firing, an attempt whose server never
\* completes the response, headers or body, is aborted, and the call ends.
EveryCallReturns == Serving ~> Returned

\* What holds of the code: the timer bounds the wait for the headers only.
\* An attempt that waits for fetch() has its timer armed and does not wait
\* forever; line 202 clears the timer before the body is read (line 208),
\* and no timer of the call can end that read.
TimeoutBoundsHeadersOnly ==
    /\ [](pc = "fetching" => attempt \in timers)
    /\ [](pc = "reading" => attempt \notin timers)
    /\ (pc = "fetching") ~> (pc # "fetching")
    /\ Serving ~> (Returned \/ pc = "reading")

-----------------------------------------------------------------------------
(* SpecConcurrent: fetch_url (lines 185-235) run by several tool calls at  *)
(* once.  The handler is async: while one call awaits, the server takes    *)
(* the next request.  Of a call only its attempts, timers and aborts are   *)
(* kept; each call runs once.                                              *)

\* Largest retries (a whole number) a call of SpecConcurrent is given.
MaxConcRetries == 2

\* A slip: one controller per call, made before the loop.
ControllerPerCall(c, k) == <<c, 0>>

\* Line 194: `new AbortController()` inside the loop body: attempt k of
\* call c has a controller of its own, which its timer's callback (line 195)
\* and its fetch() (line 199) both hold.
ControllerOf(c, k) == <<c, k>>

\* The requests in flight whose signal belongs to the controller x.
Listening(x) ==
    {<<c, cAttempt[c]>> : c \in {d \in Calls :
        /\ cPc[d] \in {"fetching", "reading"}
        /\ ControllerOf(d, cAttempt[d]) = x}}

\* Lines 192-197: attempt k of call c arms its timer and calls fetch().
CStartAttempt(c, k) ==
    /\ cAttempt' = [cAttempt EXCEPT ![c] = k]
    /\ cPc' = [cPc EXCEPT ![c] = "fetching"]

\* fetch_url is called (line 29).
CCall(c, retries) ==
    /\ cPc[c] = "idle"
    /\ cRetries' = [cRetries EXCEPT ![c] = retries]
    /\ CStartAttempt(c, 0)
    /\ cTimers' = cTimers \cup {<<c, 0>>}
    /\ UNCHANGED <<cLastAbort, fetchVars, pageVars, repeatVars, browserVars, thinkVars>>

\* Lines 209-223 for each call of the set `caught`, whose attempt failed
\* with an error that is retried or not: a pause, or fetch_url returns.
CCatch(caught, retried) ==
    cPc' = [c \in Calls |->
              IF c \notin caught THEN cPc[c]
              ELSE IF retried /\ cAttempt[c] < cRetries[c] THEN "pausing"
              ELSE "done"]

\* fetch() of call c resolves (line 197): its timer is cleared (line 202);
\* a non-2xx status is thrown and not retried, else the body is read.
CFetchResolves(c, ok) ==
    /\ cPc[c] = "fetching"
    /\ cTimers' = cTimers \ {<<c, cAttempt[c]>>}
    /\ IF ok THEN cPc' = [cPc EXCEPT ![c] = "reading"]
             ELSE CCatch({c}, FALSE)
    /\ UNCHANGED <<cRetries, cAttempt, cLastAbort, fetchVars, pageVars, repeatVars, browserVars, thinkVars>>

\* fetch() of call c rejects with a network error; its timer stays armed.
CFetchRejects(c) ==
    /\ cPc[c] = "fetching"
    /\ CCatch({c}, TRUE)
    /\ UNCHANGED <<cRetries, cAttempt, cTimers, cLastAbort, fetchVars, pageVars, repeatVars, browserVars, thinkVars>>

\* response.text() of call c resolves or rejects (line 208).
CBodySettles(c, ok) ==
    /\ cPc[c] = "reading"
    /\ IF ok THEN cPc' = [cPc EXCEPT ![c] = "done"]
             ELSE CCatch({c}, TRUE)
    /\ UNCHANGED <<cRetries, cAttempt, cTimers, cLastAbort, fetchVars, pageVars, repeatVars, browserVars, thinkVars>>

\* The pause of call c ends (line 218): the next attempt.
CPauseEnds(c) ==
    /\ cPc[c] = "pausing"
    /\ CStartAttempt(c, cAttempt[c] + 1)
    /\ cTimers' = cTimers \cup {<<c, cAttempt[c] + 1>>}
    /\ UNCHANGED <<cRetries, cLastAbort, fetchVars, pageVars, repeatVars, browserVars, thinkVars>>

\* The timer armed by attempt k of call c fires (line 195): abort() of that
\* controller.  The requests in flight that listen to it reject with an
\* AbortError, which their calls catch; a settled request is not affected.
CTimerFires(c, k) ==
    /\ <<c, k>> \in cTimers
    /\ cTimers' = cTimers \ {<<c, k>>}
    /\ LET aborted == Listening(ControllerOf(c, k))
       IN  /\ CCatch({r[1] : r \in aborted}, TRUE)
           /\ cLastAbort' = IF aborted = {} THEN cLastAbort
                             ELSE Given([timer |-> <<c, k>>, requests |-> aborted])
    /\ UNCHANGED <<cRetries, cAttempt, fetchVars, pageVars, repeatVars, browserVars, thinkVars>>

NextConcurrent ==
    \/ \E c \in Calls, retries \in 0..MaxConcRetries : CCall(c, retries)
    \/ \E c \in Calls, ok \in BOOLEAN : CFetchResolves(c, ok)
    \/ \E c \in Calls : CFetchRejects(c)
    \/ \E c \in Calls, ok \in BOOLEAN : CBodySettles(c, ok)
    \/ \E c \in Calls : CPauseEnds(c)
    \/ \E c \in Calls, k \in 0..MaxConcRetries : CTimerFires(c, k)

SpecConcurrent == Init /\ [][NextConcurrent]_vars

\* C19. Per-attempt cancellation scope: a timer armed by attempt k of a
\* call, also one left armed after that attempt failed with a network
\* error, aborts the request of attempt k of that call and nothing else:
\* no other attempt of the call, no attempt of a call running beside it.
\* And an attempt in flight is aborted by no timer but its own: while it
\* waits for fetch() its own timer is armed.
PerAttemptCancellation ==
    /\ cLastAbort # <<>> => cLastAbort[1].requests = {cLastAbort[1].timer}
    /\ \A c \in Calls :
          /\ cPc[c] = "fetching" => <<c, cAttempt[c]>> \in cTimers
          /\ \A k \in 0..MaxConcRetries :
                <<c, k>> \in cTimers => (cPc[c] # "idle" /\ k <= cAttempt[c])

\* Call a, whose attempt 0 failed on the network and left its timer armed,
\* is at attempt 1 while call b is at its attempt 0; a timer has fired and
\* aborted its own attempt, and a's old timer is still armed.
PerAttemptCancellationWitness ==
    /\ cPc["a"] = "fetching" /\ cAttempt["a"] = 1
    /\ cPc["b"] = "pausing" /\ cAttempt["b"] = 0
    /\ <<"a", 0>> \in cTimers /\ <<"a", 1>> \in cTimers
    /\ cLastAbort = Given([timer |-> <<"b", 0>>, requests |-> {<<"b", 0>>}])

-----------------------------------------------------------------------------
(* Properties of call_fetch's result, checked under Spec *)

\* The result is the envelope of lines 112-119 around the paginated text:
\* the content type fetch_url returned, the length of the full text handed
\* to the paginator, the url of the call, then the page.
IsEnvelope ==
    /\ result.kind = "text" /\ result.why = "envelope"
    /\ result.contentType = response[1].contentType
    /\ original # <<>> /\ result.contentSize = Len(original[1])
    /\ result.url = args.url
    /\ result.page = paginate(original[1], args.start_index, args.max_length)

\* C20. Output envelope: every result the fetch tool returns begins with
\* the Content-Type, Content size and Contents-of lines, followed by the
\* paginated content or by the refusal or failure annotation; the content
\* size is the length of the full text being paginated, whatever
\* start_index and max_length.
EveryResultEnveloped == Returned => IsEnvelope

\* What holds of the code: the result is the envelope exactly when the
\* paginator ran; the binary refusal (lines 63-72) and "Failed to get page
\* text" (lines 43-52) are returned bare, without the three lines.
EnvelopeWhenPaginated ==
    Returned =>
        /\ IsEnvelope <=> "paginate" \in ran
        /\ "paginate" \notin ran <=>
              \/ response[1].pageRaw = ""
              \/ (NamesBinaryType(response[1].contentType) /\ ~args.raw)
        /\ "paginate" \notin ran =>
              /\ result.kind = "text"
              /\ result.why \in {"binary refusal", "Failed to get page text"}
              /\ result.url = "" /\ result.contentSize = 0

-----------------------------------------------------------------------------
(* The accepted parameter set, checked under Spec *)

\* The parameter set as the specification's FetchRequest gives it: url
\* well-formed, 0 < max_length <= 1,000,000, start_index >= 0,
\* 0 < timeout <= 60,000, 0 <= retries <= 5, omitted fields at their
\* defaults.
StatedAccepts(a) ==
    /\ a.url # Omitted /\ IsUrl(a.url[1])
    /\ \/ a.max_length = Omitted
       \/ (a.max_length[1] > 0 /\ a.max_length[1] <= Num(MAX_LENGTH_LIMIT))
    /\ a.start_index = Omitted \/ a.start_index[1] >= 0
    /\ \/ a.timeout = Omitted
       \/ (a.timeout[1] > 0 /\ a.timeout[1] <= Num(TIMEOUT_LIMIT))
    /\ \/ a.retries = Omitted
       \/ (a.retries[1] >= 0 /\ a.retries[1] <= Num(RETRIES_LIMIT))

\* The handler rejected the call's parameters.
Rejected == result # <<>> /\ result.kind = "fault" /\ result.why = "Invalid input"

\* An accepted call works on the values given, and on 5000, 0, false, 10000
\* and 2 for the fields left out.
DefaultsFilled ==
    LET a == request.arguments[1] IN
    /\ args.url = a.url[1]
    /\ args.max_length =
          IF a.max_length = Omitted THEN Num(5000) ELSE a.max_length[1]
    /\ args.start_index =
          IF a.start_index = Omitted THEN Num(0) ELSE a.start_index[1]
    /\ args.raw = IF a.raw = Omitted THEN FALSE ELSE a.raw[1]
    /\ args.timeout =
          IF a.timeout = Omitted THEN Num(10000) ELSE a.timeout[1]
    /\ args.retries = IF a.retries = Omitted THEN Num(2) ELSE a.retries[1]

\* C21. Accepted parameter set: validation accepts a fetch request exactly
\* when url is well-formed, 0 < max_length <= 1,000,000, start_index >= 0,
\* 0 < timeout <= 60,000 and 0 <= retries <= 5, with the defaults 5000, 0,
\* false, 10000 and 2 for omitted fields; every other request is rejected.
AcceptedParameterSet ==
    (FetchCall /\ pc # "idle") =>
        /\ Rejected <=> ~StatedAccepts(request.arguments[1])
        /\ ~Rejected => DefaultsFilled

\* What holds of the code: the same set with max_length strictly below
\* 1,000,000 (line 21 is lt, where lines 24 and 25 are lte), and with
\* numbers that are not whole among the accepted ones.
AcceptedParameterSetBelowLimit ==
    (FetchCall /\ pc # "idle") =>
        /\ Rejected <=>
              \/ ~StatedAccepts(request.arguments[1])
              \/ request.arguments[1].max_length = Given(Num(MAX_LENGTH_LIMIT))
        /\ ~Rejected => DefaultsFilled

-----------------------------------------------------------------------------
(* SpecRepeat: one server paginating for call after call.                  *)
(* Each call brings the text fetch_url and the simplifier gave it, its     *)
(* start_index and its max_length; the server process lives on between    *)
(* the calls.                                                              *)

\* Longest text, and largest max_length, of a call.
MaxRepeatLen == 3
MaxRepeatPage == 2
\* Calls with other arguments counted since the remembered call.
MaxBetween == 2

RepeatTexts == {Substring(ScenarioText, 0, Num(n)) : n \in 1..MaxRepeatLen}
\* The whole numbers up to the bounds, and one number that is not whole.
RepeatCalls ==
    [text : RepeatTexts,
     start_index : {Num(k) : k \in 0..MaxRepeatLen} \cup {1},
     max_length : {Num(k) : k \in 1..MaxRepeatPage} \cup {1}]

\* A server that resumes where the call before ended.
StartIndexResumes(startIndex, before) ==
    IF before = <<>> \/ before.out.sentinel THEN startIndex
    ELSE before.call.start_index + Num(Len(before.out.slice))

\* The index lines 89-107 work from, in a process that served `before` as
\* its previous call: the parameter startIndex of this call.  call_fetch
\* reads its parameters and its locals only; the module's top level holds
\* no variable that a call writes (lines 8-26).
StartIndexOf(startIndex, before) == startIndex

\* The server paginates for one call (lines 86-110).
RepeatCall(call) ==
    /\ rLast' = [call |-> call,
                 out |-> paginate(call.text,
                                  StartIndexOf(call.start_index, rLast),
                                  call.max_length)]
    /\ IF rMemo = <<>>
       THEN rMemo' \in {<<>>, rLast'} /\ rBetween' = 0
       ELSE /\ rMemo' = rMemo
            /\ rBetween' = IF call # rMemo.call
                           THEN Min(rBetween + 1, MaxBetween) ELSE rBetween
    /\ UNCHANGED <<fetchVars, pageVars, concVars, browserVars, thinkVars>>

NextRepeat == \E call \in RepeatCalls : RepeatCall(call)

SpecRepeat == Init /\ [][NextRepeat]_vars

-----------------------------------------------------------------------------
(* Progress of the cursor, checked under Spec and SpecPaginate *)

\* The text call_fetch hands to lines 86-110 is never empty: an empty body
\* ends the call at line 43, and extractContentFromHtml returns a title
\* line or an annotation.
PaginatedTextNonEmpty == original # <<>> => Len(original[1]) > 0

\* ceil(a / b) for fixed-point a >= 0 and b > 0.
CeilDiv(a, b) == (a + b - 1) \div b

\* The client is on a walk from index 0 and has received an output.
Walking == pgChain \in {"open", "ended"}
\* The output the client received last carries the truncation notice.
Resumable == PgCalled /\ ~pgOut.sentinel /\ pgOut.suffix = Truncated

\* C27. Cursor progress: whenever a truncation notice is emitted, the next
\* start_index n it reports satisfies start_index < n < total length; hence
\* a caller that follows the reported cursors from 0 over a text (not empty,
\* as every text the paginator is given) has made at most
\* ceil(total / max_length) calls when it receives an output without a
\* resume instruction, and fewer while it still holds one.
CursorProgress ==
    /\ Resumable =>
          /\ pgStart < pgOut.nextStart
          /\ pgOut.nextStart < Num(Len(pgText))
    /\ (Walking /\ Len(pgText) > 0) =>
          /\ pgCalls <= CeilDiv(Num(Len(pgText)), pgMax)
          /\ pgChain = "open" => pgCalls < CeilDiv(Num(Len(pgText)), pgMax)
          /\ pgChain = "open" <=> Resumable

\* A walk over four characters, two at a time, ended with its second call.
CursorProgressWitness ==
    /\ pgChain = "ended" /\ Len(pgText) = 4 /\ pgMax = Num(2)
    /\ pgCalls = 2 /\ pgStart = Num(2) /\ pgAcc = pgText

-----------------------------------------------------------------------------
(* The browser server, src/src/puppeteer/src/index.ts.                     *)
(* A handler runs from one await to the next without interruption and is   *)
(* suspended at each awaited browser operation.  Browsers crash, and their *)
(* 'disconnected' events arrive, between any two such steps.               *)
(* SpecBrowser: one tool call at a time, with the history of results.      *)
(* SpecBrowserRaces: two tool calls at once, without that history.         *)

\* Browser instances puppeteer.launch starts in one run.
MaxBrowsers == 2

Instances == 1..MaxBrowsers

\* What the browser server does not touch.
nonBrowserVars == <<fetchVars, pageVars, concVars, repeatVars, thinkVars>>

\* Line 201: `page_${Date.now()}_${Math.random().toString(36).substring(2, 9)}`,
\* for calls that read the same millisecond and draw one of two numbers.
PageIds == {"page_1_a", "page_1_b"}

\* The tools that take a pageId and work on the page (lines 215-513).
PageTools == {"navigate", "screenshot", "getContent", "click", "type", "evaluate"}
\* The tools whose case starts with XSchema.parse(params).
ParsingTools == {"launchBrowser", "newPage", "closePage"} \cup PageTools

\* The pageId of a call that fails its schema: for a tool that takes one,
\* left out or given; for the others, none.
PageIdArgs(tool) ==
    IF tool \in PageTools \cup {"closePage"} THEN {""} \cup PageIds ELSE {""}

\* What the handler returns: { content: [{ type: "text", text }] }.
\* tool and pageId are those of the call the result answers.
Content(tool, pageId, text) ==
    [kind |-> "content", tool |-> tool, pageId |-> pageId, text |-> text]

\* A slip: the outer catch throws the error on to the protocol layer.
CaughtRethrows(tool, pageId, error) ==
    [kind |-> "fault", tool |-> tool, pageId |-> pageId, text |-> error]

\* The outer catch, lines 601-620.
Caught(tool, pageId, error) ==
    IF error = "ZodError"
    THEN Content(tool, pageId, "Invalid input: ...")
    ELSE Content(tool, pageId, "Error: " \o error)

\* Lines 224, 272, 327, 394, 437, 484, 524.
NotFound(pageId) == "Error: Page with ID " \o pageId \o " not found"

\* The text of a page tool's result when its browser operations resolved.
Succeeded(tool) ==
    CASE tool = "navigate"   -> "Navigated to ..."                  \* line 244
      [] tool = "screenshot" -> "Screenshot captured (...)"         \* line 297
      [] tool = "getContent" -> "Content from ..."                  \* line 366
      [] tool = "click"      -> "Clicked on ... successfully"       \* line 412
      [] tool = "type"       -> "Typed ... successfully"            \* line 459
      [] tool = "evaluate"   -> "Evaluation result: ..."            \* line 498

\* The text of a page tool's result when one of them rejected.
Failed(tool) ==
    CASE tool = "navigate"   -> "Navigation failed: ..."            \* line 256
      [] tool = "screenshot" -> "Screenshot failed: ..."            \* line 311
      [] tool = "getContent" -> "Getting content failed: ..."       \* line 378
      [] tool = "click"      -> "Click failed: ..."                 \* line 421
      [] tool = "type"       -> "Type failed: ..."                  \* line 468
      [] tool = "evaluate"   -> "Evaluation failed: ..."            \* line 508

\* A slip: a lookup that falls back on a tracked page.
pagesGetAny(pageId) ==
    IF pageId \in DOMAIN pages THEN <<pages[pageId]>>
    ELSE IF DOMAIN pages # {} THEN <<pages[CHOOSE id \in DOMAIN pages : TRUE]>>
    ELSE <<>>

\* pages.get(pageId): the page, or undefined (<<>>).
pagesGet(pageId) ==
    IF pageId \in DOMAIN pages THEN <<pages[pageId]>> ELSE <<>>

\* pages.set(pageId, page): a Map keeps one value per key.
pagesSet(pageId, page) ==
    [id \in DOMAIN pages \cup {pageId} |->
        IF id = pageId THEN page ELSE pages[id]]

\* pages.delete(pageId).
pagesDelete(pageId) == [id \in DOMAIN pages \ {pageId} |-> pages[id]]

\* The history variables last, revoked and closedIds are kept in runs that
\* start with last = NoResult, and stay as they are in runs that start with
\* Unlogged.
Logging == last # Unlogged

\* The handler of call c returns `returned`.
Returns(c, returned) ==
    /\ calls' = [calls EXCEPT ![c] = NoCall]
    /\ last' = IF Logging THEN returned ELSE last

\* The handler of call c waits for a browser operation.
Awaits(c, tool, at, pageId, inst, page) ==
    /\ calls' = [calls EXCEPT ![c] =
                    [pc |-> at, tool |-> tool, pageId |-> pageId,
                     inst |-> inst, page |-> page]]
    /\ last' = last

\* Browser instance b stops running: it emits 'disconnected' once, to the
\* listener registered on it at lines 34 or 176.
GoesDown(b) ==
    /\ up' = up \ {b}
    /\ events' = IF b \in up THEN events \cup {b} ELSE events

\* XSchema.parse(params) throws (lines 163, 192, 216, ...): the outer catch
\* answers.
CallInvalid(c, tool, pageId) ==
    /\ calls[c].pc = "idle"
    /\ Returns(c, Caught(tool, pageId, "ZodError"))
    /\ UNCHANGED <<browser, pages, launched, up, events, revoked, closedIds>>
    /\ UNCHANGED nonBrowserVars

\* default: of the switch, lines 591-599.
CallUnknown(c) ==
    /\ calls[c].pc = "idle"
    /\ Returns(c, Content("other", "", "Unknown tool: other"))
    /\ UNCHANGED <<browser, pages, launched, up, events, revoked, closedIds>>
    /\ UNCHANGED nonBrowserVars

\* launchBrowser, lines 162-169, up to its first await.
launchBrowser(c) ==
    /\ calls[c].pc = "idle"
    /\ IF browser # 0
       THEN Awaits(c, "launchBrowser", "closing", "", browser, <<>>)
       ELSE Awaits(c, "launchBrowser", "launching", "", 0, <<>>)
    /\ UNCHANGED <<browser, pages, launched, up, events, revoked, closedIds>>
    /\ UNCHANGED nonBrowserVars

\* launchBrowser: `await browser.close()` of line 166 settles; lines 167-171.
launchBrowserClosed(c, ok) ==
    /\ calls[c].tool = "launchBrowser" /\ calls[c].pc = "closing"
    /\ IF ok
       THEN /\ GoesDown(calls[c].inst)
            /\ browser' = 0
            /\ pages' = NoPages
            /\ Awaits(c, "launchBrowser", "launching", "", 0, <<>>)
       ELSE /\ Returns(c, Caught("launchBrowser", "", "close failed"))
            /\ UNCHANGED <<browser, pages, up, events>>
    /\ UNCHANGED <<launched, revoked, closedIds>>
    /\ UNCHANGED nonBrowserVars

\* puppeteer.launch resolves with a new instance, or rejects.
Launch(ok) ==
    IF ok
    THEN /\ launched < MaxBrowsers
         /\ launched' = launched + 1
         /\ up' = up \cup {launched + 1}
         /\ browser' = launched + 1
    ELSE UNCHANGED <<launched, up, browser>>

\* launchBrowser: `await puppeteer.launch(...)` of line 171 settles; lines
\* 171-188.
launchBrowserLaunched(c, ok) ==
    /\ calls[c].tool = "launchBrowser" /\ calls[c].pc = "launching"
    /\ Launch(ok)
    /\ Returns(c, IF ok
                  THEN Content("launchBrowser", "", "Browser launched successfully")
                  ELSE Caught("launchBrowser", "", "launch failed"))
    /\ UNCHANGED <<pages, events, revoked, closedIds>>
    /\ UNCHANGED nonBrowserVars

\* newPage, lines 191-195, with ensureBrowser (lines 28-40), up to its
\* first await that another step can precede.
newPage(c) ==
    /\ calls[c].pc = "idle"
    /\ IF browser = 0
       THEN Awaits(c, "newPage", "launching", "", 0, <<>>)
       ELSE Awaits(c, "newPage", "creating", "", browser, <<>>)
    /\ UNCHANGED <<browser, pages, launched, up, events, revoked, closedIds>>
    /\ UNCHANGED nonBrowserVars

\* ensureBrowser: `await puppeteer.launch(...)` of line 30 settles; lines
\* 30-39 and 193-195.
ensureBrowserLaunched(c, ok) ==
    /\ calls[c].tool = "newPage" /\ calls[c].pc = "launching"
    /\ Launch(ok)
    /\ IF ok
       THEN Awaits(c, "newPage", "creating", "", launched + 1, <<>>)
       ELSE Returns(c, Caught("newPage", "", "launch failed"))
    /\ UNCHANGED <<pages, events, revoked, closedIds>>
    /\ UNCHANGED nonBrowserVars

\* newPage: `await browser.newPage()` of line 195 settles.
newPageCreated(c, ok) ==
    /\ calls[c].tool = "newPage" /\ calls[c].pc = "creating"
    /\ IF ok
       THEN /\ calls[c].inst \in up
            /\ Awaits(c, "newPage", "viewport", "", calls[c].inst,
                      <<[inst |-> calls[c].inst]>>)
       ELSE Returns(c, Caught("newPage", "", "newPage failed"))
    /\ UNCHANGED <<browser, pages, launched, up, events, revoked, closedIds>>
    /\ UNCHANGED nonBrowserVars

\* newPage: `await page.setViewport(...)` of line 196 settles; lines
\* 201-212, where pageId is what Date.now() and Math.random() give.
newPageRegistered(c, ok, pageId) ==
    /\ calls[c].tool = "newPage" /\ calls[c].pc = "viewport"
    /\ IF ok
       THEN /\ calls[c].inst \in up
            /\ pages' = pagesSet(pageId, calls[c].page[1])
            /\ Returns(c, Content("newPage", pageId,
                                  "New page created with ID: " \o pageId))
       ELSE /\ Returns(c, Caught("newPage", "", "setViewport failed"))
            /\ UNCHANGED pages
    /\ UNCHANGED <<browser, launched, up, events, revoked, closedIds>>
    /\ UNCHANGED nonBrowserVars

\* navigate, screenshot, getContent, click, type, evaluate: from the call to
\* the first await (lines 215-231, 263-279, ...).
pageTool(c, tool, pageId) ==
    /\ calls[c].pc = "idle"
    /\ LET page == pagesGet(pageId)
       IN  IF page = <<>>
           THEN Returns(c, Content(tool, pageId, NotFound(pageId)))
           ELSE Awaits(c, tool, "operating", pageId, page[1].inst, page)
    /\ UNCHANGED <<browser, pages, launched, up, events, revoked, closedIds>>
    /\ UNCHANGED nonBrowserVars

\* The awaited operations of a page tool settle (lines 231-260, ...).
pageToolSettled(c, ok) ==
    /\ calls[c].tool \in PageTools /\ calls[c].pc = "operating"
    /\ ok => calls[c].inst \in up
    /\ Returns(c, Content(calls[c].tool, calls[c].pageId,
                          IF ok THEN Succeeded(calls[c].tool)
                          ELSE Failed(calls[c].tool)))
    /\ UNCHANGED <<browser, pages, launched, up, events, revoked, closedIds>>
    /\ UNCHANGED nonBrowserVars

\* closePage, lines 515-531, up to its await.
closePage(c, pageId) ==
    /\ calls[c].pc = "idle"
    /\ LET page == pagesGet(pageId)
       IN  IF page = <<>>
           THEN Returns(c, Content("closePage", pageId, NotFound(pageId)))
           ELSE Awaits(c, "closePage", "closing", pageId, page[1].inst, page)
    /\ UNCHANGED <<browser, pages, launched, up, events, revoked, closedIds>>
    /\ UNCHANGED nonBrowserVars

\* closePage: `await page.close()` of line 531 settles; lines 532-551.
closePageClosed(c, ok) ==
    /\ calls[c].tool = "closePage" /\ calls[c].pc = "closing"
    /\ IF ok
       THEN /\ calls[c].inst \in up
            /\ pages' = pagesDelete(calls[c].pageId)
            /\ closedIds' = IF Logging THEN closedIds \cup {calls[c].pageId}
                            ELSE closedIds
            /\ Returns(c, Content("closePage", calls[c].pageId,
                                  "Page " \o calls[c].pageId
                                      \o " closed successfully"))
       ELSE /\ Returns(c, Content("closePage", calls[c].pageId,
                                  "Closing page failed: ..."))
            /\ UNCHANGED <<pages, closedIds>>
    /\ UNCHANGED <<browser, launched, up, events, revoked>>
    /\ UNCHANGED nonBrowserVars

\* closeBrowser, lines 554-567, up to its await.
closeBrowser(c) ==
    /\ calls[c].pc = "idle"
    /\ IF browser = 0
       THEN Returns(c, Content("closeBrowser", "", "Browser was not running"))
       ELSE Awaits(c, "closeBrowser", "closing", "", browser, <<>>)
    /\ UNCHANGED <<browser, pages, launched, up, events, revoked, closedIds>>
    /\ UNCHANGED nonBrowserVars

\* closeBrowser: `await browser.close()` of line 567 settles; lines 568-588.
closeBrowserClosed(c, ok) ==
    /\ calls[c].tool = "closeBrowser" /\ calls[c].pc = "closing"
    /\ IF ok
       THEN /\ GoesDown(calls[c].inst)
            /\ browser' = 0
            /\ pages' = NoPages
            /\ revoked' = IF Logging THEN revoked \cup DOMAIN pages ELSE revoked
            /\ closedIds' = closedIds
            /\ Returns(c, Content("closeBrowser", "", "Browser closed successfully"))
       ELSE /\ Returns(c, Content("closeBrowser", "", "Closing browser failed: ..."))
            /\ UNCHANGED <<browser, pages, up, events, revoked, closedIds>>
    /\ UNCHANGED launched
    /\ UNCHANGED nonBrowserVars

\* A running browser crashes or is killed.
Crash(b) ==
    /\ b \in up
    /\ GoesDown(b)
    /\ UNCHANGED <<browser, pages, launched, calls, last, revoked, closedIds>>
    /\ UNCHANGED nonBrowserVars

\* The 'disconnected' event of instance b is delivered: the listener of
\* lines 34-37 (or 176-179) runs.
Disconnected(b) ==
    /\ b \in events
    /\ events' = events \ {b}
    /\ browser' = 0
    /\ pages' = NoPages
    /\ UNCHANGED <<launched, up, calls, last, revoked, closedIds>>
    /\ UNCHANGED nonBrowserVars

\* What a call c can do.
CallSteps(c) ==
    \/ \E tool \in ParsingTools : \E pageId \in PageIdArgs(tool) :
          CallInvalid(c, tool, pageId)
    \/ CallUnknown(c)
    \/ launchBrowser(c)
    \/ newPage(c)
    \/ \E tool \in PageTools, pageId \in PageIds : pageTool(c, tool, pageId)
    \/ \E pageId \in PageIds : closePage(c, pageId)
    \/ closeBrowser(c)
    \/ \E ok \in BOOLEAN :
          \/ launchBrowserClosed(c, ok)
          \/ launchBrowserLaunched(c, ok)
          \/ ensureBrowserLaunched(c, ok)
          \/ newPageCreated(c, ok)
          \/ \E pageId \in PageIds : newPageRegistered(c, ok, pageId)
          \/ pageToolSettled(c, ok)
          \/ closePageClosed(c, ok)
          \/ closeBrowserClosed(c, ok)

\* What the browsers do.
BrowserSteps == \E b \in Instances : Crash(b) \/ Disconnected(b)

\* The client waits for each result before it sends the next call.
OneCall == CHOOSE c \in Calls : TRUE

NextBrowser == CallSteps(OneCall) \/ BrowserSteps

SpecBrowser == Init /\ [][NextBrowser]_vars

\* The client sends calls without waiting for the results of earlier ones.
InitRaces ==
    /\ FetchIdle
    /\ ConcIdle
    /\ ThinkIdle
    /\ RepeatIdle
    /\ pgText = "" /\ pgMax = Num(1) /\ pgStart = 0 /\ pgOut = Sentinel
    /\ pgAcc = "" /\ pgChain = "fresh" /\ pgCalls = 0
    /\ BrowserStart
    /\ last = Unlogged
    /\ revoked = {}
    /\ closedIds = {}

NextBrowserRaces == (\E c \in Calls : CallSteps(c)) \/ BrowserSteps

SpecBrowserRaces == InitRaces /\ [][NextBrowserRaces]_vars

-----------------------------------------------------------------------------
(* Properties of the browser server *)

\* C23. Page ID uniqueness: every newPage call registers its page under an
\* ID different from every ID currently in the registry, so registering a
\* new page never overwrites or hides a page that is still tracked.
PageIdsUnique ==
    [][\A c \in Calls, pageId \in PageIds :
          newPageRegistered(c, TRUE, pageId) => pageId \notin DOMAIN pages]_vars

\* What holds of the code: a page registered under a new ID leaves every
\* tracked page in place; under an ID in use it takes that ID's place.
PageIdsUniqueWhenFresh ==
    [][\A c \in Calls, pageId \in PageIds :
          newPageRegistered(c, TRUE, pageId) =>
              /\ DOMAIN pages' = DOMAIN pages \cup {pageId}
              /\ \A id \in DOMAIN pages \ {pageId} : pages'[id] = pages[id]
              /\ pages'[pageId] = calls[c].page[1]]_vars

\* In this step the handler takes up a call of c: it returns at once or
\* waits for a browser operation.
Started(c) ==
    calls[c].pc = "idle" /\ (calls'[c].pc # "idle" \/ last' # last)
\* The tool and the pageId of the call taken up.
StartedTool(c) == IF calls'[c].pc # "idle" THEN calls'[c].tool ELSE last'.tool
StartedPageId(c) ==
    IF calls'[c].pc # "idle" THEN calls'[c].pageId ELSE last'.pageId
\* In this step the handler of c returns a result with this text.
Reports(c, text) ==
    calls[c].pc # "idle" /\ calls'[c].pc = "idle" /\ last'.text = text

\* The module's state and the browsers, as a step leaves them alone.
BrowserStateKept == UNCHANGED <<browser, pages, launched, up, events>>

\* closeBrowser reports success with no browser recorded and an empty
\* registry, and 'Browser was not running' without changing anything.
CloseBrowserSteps ==
    [][LET c == OneCall IN
       /\ (calls[c].tool = "closeBrowser"
             /\ Reports(c, "Browser closed successfully"))
             => browser' = 0 /\ pages' = NoPages
       /\ (Started(c) /\ StartedTool(c) = "closeBrowser" /\ browser = 0)
             => /\ calls'[c].pc = "idle"
                /\ last'.text = "Browser was not running"
                /\ BrowserStateKept]_vars

\* C24. closeBrowser closes the browser and all pages: after a closeBrowser
\* call reports success, no browser is recorded as running, the page
\* registry is empty, and every page ID issued before yields 'Page with ID
\* ... not found' on any later page operation (it is in the registry at no
\* later time); closeBrowser with no browser running reports 'Browser was
\* not running' and changes nothing.
CloseBrowserClosesAll ==
    /\ CloseBrowserSteps
    /\ [](revoked \cap DOMAIN pages = {})

\* What holds of the code: an ID tracked when closeBrowser succeeded is
\* found again only after a newPage result reported that ID once more.
CloseBrowserRevokes ==
    /\ CloseBrowserSteps
    /\ [][\A pageId \in revoked' :
            (pageId \in DOMAIN pages' /\ pageId \notin DOMAIN pages)
                => newPageRegistered(OneCall, TRUE, pageId)]_vars

\* In this step the handler of c goes on with, or ends, a call of `tool`.
Continues(c, tool) == calls[c].tool = tool /\ calls'[c] # calls[c]

\* C25. launchBrowser launches a new browser instance only if one is not
\* already launched: when a browser is already running, a launchBrowser
\* call leaves that browser and every tracked page registered and usable.
LaunchOnlyIfNotLaunched ==
    [][LET c == OneCall IN
       (Continues(c, "launchBrowser") /\ browser # 0 /\ browser \in up)
          => /\ browser' = browser
             /\ pages' = pages
             /\ browser \in up']_vars

\* What holds of the code: a launchBrowser call that finds a browser
\* recorded closes it and empties the registry (lines 165-169), and the
\* browser it reports as launched is a new instance.
LaunchReplaces ==
    [][LET c == OneCall IN
       /\ (Continues(c, "launchBrowser") /\ calls[c].pc = "closing"
             /\ calls'[c].pc = "launching")
             => /\ calls[c].inst \notin up'
                /\ browser' = 0 /\ pages' = NoPages
       /\ (calls[c].tool = "launchBrowser"
             /\ Reports(c, "Browser launched successfully"))
             => /\ browser' \notin up /\ browser' \in up'
                /\ browser' # 0 /\ pages' = pages]_vars

\* C26. Browser server responses always include content: for every tool
\* call (valid, failing its schema, naming no tool, naming no tracked page,
\* or meeting a browser operation that fails) the handler returns a result
\* whose content is a text part, and never raises a fault.
AlwaysContent ==
    last # NoResult => last.kind = "content" /\ last.text # ""

\* browser.newPage() failed on the recorded browser, which had crashed: the
\* error went through the outer catch.
AlwaysContentWitness ==
    /\ last.tool = "newPage" /\ last.text = "Error: newPage failed"
    /\ browser # 0 /\ browser \notin up

\* C28. Registry/browser consistency: in every reachable state of the
\* browser server, for every interleaving of tool calls and 'disconnected'
\* events, a non-empty page registry implies that a browser is recorded as
\* running; no page ID is registered while the recorded browser is null.
RegistryConsistent == DOMAIN pages # {} => browser # 0

\* What holds of the code for calls made one at a time: the one step that
\* breaks the consistency is a newPage call registering its page, on a
\* browser that runs while none is recorded.
RegistryConsistentUnlessStale ==
    [][(RegistryConsistent /\ ~RegistryConsistent')
          => /\ newPageRegistered(OneCall, TRUE, last'.pageId)
             /\ calls[OneCall].inst \in up]_vars


\* C29. Stale disconnect isolation: the 'disconnected' event of a browser
\* instance that is not the recorded one (it was replaced by launchBrowser,
\* or closed and relaunched by newPage) leaves the record of the current
\* browser and the registry of its pages as they are.
StaleDisconnectIsolated ==
    [][\A b \in Instances :
          (Disconnected(b) /\ browser # 0 /\ browser # b)
              => (browser' = browser /\ pages' = pages)]_vars

\* What holds of the code: the listener resets the record and the registry
\* whichever instance the event comes from.
DisconnectResetsAll ==
    [][\A b \in Instances :
          Disconnected(b) => (browser' = 0 /\ DOMAIN pages' = {})]_vars


\* The call taken up in this step passed the schema of its tool.
PassedSchema(c) ==
    calls'[c].pc = "idle" => last'.text # "Invalid input: ..."

\* C30. Unknown page ID: navigate, screenshot, getContent, click, type,
\* evaluate and closePage, called with arguments that pass the schema and a
\* pageId that is not in the registry, return
\* 'Error: Page with ID <id> not found' at once, with no browser operation
\* awaited, and leave the recorded browser, the registry and the browsers
\* as they are.
UnknownPageId ==
    [][LET c == OneCall IN
       ( /\ Started(c)
         /\ StartedTool(c) \in PageTools \cup {"closePage"}
         /\ StartedPageId(c) \notin DOMAIN pages
         /\ PassedSchema(c) )
       => /\ calls'[c].pc = "idle"
          /\ last' = Content(StartedTool(c), StartedPageId(c),
                             NotFound(StartedPageId(c)))
          /\ BrowserStateKept]_vars

\* A page tool answered 'not found' for an ID that is not registered while
\* a browser runs with a page in the registry.
UnknownPageIdWitness ==
    /\ last.tool \in PageTools \cup {"closePage"}
    /\ last.text = NotFound(last.pageId)
    /\ last.pageId \notin DOMAIN pages
    /\ DOMAIN pages # {} /\ browser \in up


\* The registry after pages.delete(pageId): pageId is gone, every other ID
\* is tracked with the page it had.
OnlyRemoved(pageId) ==
    /\ DOMAIN pages' = DOMAIN pages \ {pageId}
    /\ \A id \in DOMAIN pages' : pages'[id] = pages[id]

\* The steps of a closePage call: up to its await, and a return of 'not
\* found', the registry stays; the return after the await removes the
\* call's ID, and nothing else, when it reports the page closed, and leaves
\* the registry as it is when it reports a failure.
ClosePageSteps ==
    [][LET c == OneCall IN
       /\ (Started(c) /\ StartedTool(c) = "closePage") => pages' = pages
       /\ (calls[c].tool = "closePage" /\ calls'[c].pc = "idle")
             => IF last'.text = "Page " \o calls[c].pageId
                                       \o " closed successfully"
                THEN OnlyRemoved(calls[c].pageId)
                ELSE /\ last'.text = "Closing page failed: ..."
                     /\ pages' = pages]_vars

\* C31. closePage effect: a closePage(id) call changes the page registry
\* only by removing id, and only when the page close succeeded; the other
\* tracked IDs stay, a failed close leaves the registry as it is, and after
\* a successful closePage(id) every later operation on id reports 'not
\* found' (id is in the registry at no later time).
ClosePageEffect ==
    /\ ClosePageSteps
    /\ [](closedIds \cap DOMAIN pages = {})

\* What holds of the code: an ID that closePage closed is found again only
\* after a newPage result reported that ID once more.
ClosePageRevokes ==
    /\ ClosePageSteps
    /\ [][\A pageId \in closedIds' :
            (pageId \in DOMAIN pages' /\ pageId \notin DOMAIN pages)
                => newPageRegistered(OneCall, TRUE, pageId)]_vars


----------------------------------------------------------------------------
\* The thinking server, src/src/thinking/src/index.ts: one tool,
\* sequential_thinking, whose handler runs without an await, over the
\* module's one SequentialThinking object.

\* The most thoughts a run pushes.
MaxThoughts == 3

nonThinkVars == <<fetchVars, pageVars, concVars, repeatVars, browserVars>>

\* An optional field is <<>> when left out and <<v>> when given.  What
\* `if (x)`, `!x`, `x && y` and `x || false` make of one.
TruthyBoolean(opt) == opt = <<TRUE>>
TruthyNumber(opt) == opt # <<>> /\ opt[1] # 0
TruthyString(opt) == opt # <<>> /\ opt[1] # ""

\* The branch identifiers of the calls.  "constructor" names a property
\* every object literal inherits.
BranchIds == {"alt", "other", "constructor"}
\* The property names `branches = {}` inherits from Object.prototype.
InheritedKeys ==
    {"constructor", "toString", "valueOf", "hasOwnProperty", "__proto__"}

\* The thought texts: formatThought spreads the lines of the text into the
\* arguments of Math.max (line 54), which throws a RangeError when there
\* are more lines than a call can take arguments.
ThoughtTexts == {"few lines", "lines beyond the argument limit"}

\* A first thought with every optional field left out.
PlainThought ==
    [thought |-> "few lines", nextThoughtNeeded |-> FALSE,
     thoughtNumber |-> 1, totalThoughts |-> 1,
     isRevision |-> <<>>, revisesThought |-> <<>>,
     branchFromThought |-> <<>>, branchId |-> <<>>,
     needsMoreThoughts |-> <<>>]

\* The arguments of the calls: thought numbers below, at and above the
\* total, revisions with and without revisesThought, every combination of
\* branchFromThought and branchId, needsMoreThoughts, a text of many lines.
ThoughtArguments ==
    {[PlainThought EXCEPT !.thoughtNumber = n] : n \in 0..2}
    \cup {[PlainThought EXCEPT !.isRevision = <<TRUE>>, !.revisesThought = r] :
            r \in {<<>>, <<1>>}}
    \cup {[PlainThought EXCEPT !.branchFromThought = f, !.branchId = b] :
            f \in {<<>>, <<1>>},
            b \in {<<>>} \cup {<<id>> : id \in BranchIds \cup {""}}}
    \cup {[PlainThought EXCEPT !.needsMoreThoughts = <<TRUE>>]}
    \cup {[PlainThought EXCEPT !.thought = t] : t \in ThoughtTexts}

\* SequentialThinkingSchema.parse(arguments) returns (lines 9-19, 154).
SequentialThinkingSchema(a) ==
    /\ a.thoughtNumber >= 1 /\ a.totalThoughts >= 1
    /\ a.revisesThought # <<>> => a.revisesThought[1] >= 1
    /\ a.branchFromThought # <<>> => a.branchFromThought[1] >= 1

\* Lines 156 and 160: the conditions of the handler's two throws.
RevisionUnnumbered(a) ==
    TruthyBoolean(a.isRevision) /\ ~TruthyNumber(a.revisesThought)
BranchUnnamed(a) ==
    TruthyNumber(a.branchFromThought) /\ ~TruthyString(a.branchId)

\* The call reaches processThought (line 164).
ReachesProcessThought(a) ==
    SequentialThinkingSchema(a) /\ ~RevisionUnnumbered(a) /\ ~BranchUnnamed(a)

\* What the handler throws to the protocol layer (lines 150, 157, 161, 168,
\* 173, 176).
Thrown(error) == [NoThoughtResult EXCEPT !.kind = "fault", !.text = error]

\* Lines 72-74.
Adjusted(t) ==
    IF t.thoughtNumber > t.totalThoughts
    THEN [t EXCEPT !.totalThoughts = t.thoughtNumber]
    ELSE t

\* A slip: the history keeps the last thought only.
PushReplaces(history, t) == <<t>>

\* this.thoughtHistory.push(thoughtData), line 76.
Push(history, t) == Append(history, t)

\* The condition of line 78.
Tracks(t) == TruthyNumber(t.branchFromThought) /\ TruthyString(t.branchId)

\* this.branches[id]: the array under an own key, what the object inherits
\* under an inherited one, undefined otherwise.
branchesGet(id) ==
    IF id \in DOMAIN branches THEN "array"
    ELSE IF id \in InheritedKeys THEN "inherited"
    ELSE "undefined"

\* Line 82 throws a TypeError: what this.branches[id] gives is truthy (line
\* 79 makes no array) and has no push.
PushThrows(t) == Tracks(t) /\ branchesGet(t.branchId[1]) = "inherited"

\* formatThought throws (line 54), called at line 85.
FormatThrows(t) == t.thought = "lines beyond the argument limit"

\* Lines 88-90, on the object that the history and the branch hold.
Needed(t) ==
    IF TruthyBoolean(t.needsMoreThoughts) /\ ~t.nextThoughtNeeded
    THEN [t EXCEPT !.nextThoughtNeeded = TRUE]
    ELSE t

\* Lines 79-82 when they do not throw: the thought is pushed on the array
\* of its branch, made first when the key is new.
BranchPushed(t) ==
    [id \in DOMAIN branches \cup {t.branchId[1]} |->
        IF id = t.branchId[1]
        THEN (IF id \in DOMAIN branches THEN Append(branches[id], t)
              ELSE <<t>>)
        ELSE branches[id]]

\* The result of lines 92-109.
ThoughtResponse(t, history, tracked) ==
    [kind |-> "content", text |-> "thoughtResponse",
     thoughtNumber |-> t.thoughtNumber, totalThoughts |-> t.totalThoughts,
     nextThoughtNeeded |-> t.nextThoughtNeeded,
     branches |-> DOMAIN tracked,
     thoughtHistoryLength |-> Len(history),
     needsMoreThoughts |-> TruthyBoolean(t.needsMoreThoughts)]

\* The result of the catch of lines 110-119.
ProcessFailed ==
    [NoThoughtResult EXCEPT !.kind = "content",
                            !.text = "Failed to proccess thought. ..."]

\* processThought(thoughtData), lines 69-120.
processThought(thoughtData) ==
    LET adjusted == Adjusted(thoughtData)
        thrown == PushThrows(adjusted) \/ FormatThrows(adjusted)
        t == IF thrown THEN adjusted ELSE Needed(adjusted)
        history == Push(thoughtHistory, t)
        tracked == IF Tracks(t) /\ ~PushThrows(t) THEN BranchPushed(t)
                   ELSE branches
    IN  /\ thoughtHistory' = history
        /\ branches' = tracked
        /\ thoughtResult' = IF thrown THEN ProcessFailed
                            ELSE ThoughtResponse(t, history, tracked)

\* The handler of lines 147-178 for a call of sequential_thinking with
\* arguments a.
sequential_thinking(a) ==
    /\ Len(thoughtHistory) < MaxThoughts
    /\ IF ~SequentialThinkingSchema(a)
       THEN /\ thoughtResult' = Thrown("Invalid input: ...")
            /\ UNCHANGED <<thoughtHistory, branches>>
       ELSE IF RevisionUnnumbered(a)
       THEN /\ thoughtResult' =
                 Thrown("revisesThought is required when isRevision is true")
            /\ UNCHANGED <<thoughtHistory, branches>>
       ELSE IF BranchUnnamed(a)
       THEN /\ thoughtResult' =
                 Thrown("branchId is required when branchFromThought is specified")
            /\ UNCHANGED <<thoughtHistory, branches>>
       ELSE processThought(a)
    /\ accepted' = IF ReachesProcessThought(a) THEN Append(accepted, a)
                   ELSE accepted
    /\ UNCHANGED nonThinkVars

\* The handler for a call without arguments (lines 149-151) or of another
\* tool (line 168).
ThinkingCallThrows(error) ==
    /\ thoughtResult' = Thrown(error)
    /\ UNCHANGED <<thoughtHistory, branches, accepted>>
    /\ UNCHANGED nonThinkVars

NextThinking ==
    \/ \E a \in ThoughtArguments : sequential_thinking(a)
    \/ \E error \in {"Arguments are required", "Unknown tool: other"} :
          ThinkingCallThrows(error)

SpecThinking == Init /\ [][NextThinking]_vars


----------------------------------------------------------------------------
\* Properties of the thinking server.

\* The step answers a call that reached processThought.
AcceptedStep == accepted' # accepted

\* C32. Thought history is append-only: the thoughtHistoryLength that
\* sequential_thinking reports equals the number of calls accepted since the
\* server started; an accepted call adds exactly one thought at the end of
\* the history, a rejected call (schema violation, isRevision without
\* revisesThought, branchFromThought without branchId, no arguments, another
\* tool) leaves history and branches as they are, and the length never
\* decreases.
ThoughtHistoryAppendOnly ==
    /\ [](Len(thoughtHistory) = Len(accepted))
    /\ [](thoughtResult.text = "thoughtResponse"
            => thoughtResult.thoughtHistoryLength = Len(accepted))
    /\ [][/\ Len(thoughtHistory') >= Len(thoughtHistory)
          /\ IF AcceptedStep
             THEN /\ Len(thoughtHistory') = Len(thoughtHistory) + 1
                  /\ SubSeq(thoughtHistory', 1, Len(thoughtHistory))
                        = thoughtHistory
             ELSE /\ thoughtHistory' = thoughtHistory
                  /\ branches' = branches]_vars

\* Two thoughts are in the history, the second reported as such, and the
\* call after them was a revision without revisesThought.
ThoughtHistoryAppendOnlyWitness ==
    /\ Len(thoughtHistory) = 2
    /\ thoughtResult =
          Thrown("revisesThought is required when isRevision is true")

\* A call that reached processThought and was answered 'Failed to proccess
\* thought' is in the history all the same: line 76 ran before the throw.
ProcessFailedIsPushed ==
    [][(AcceptedStep /\ thoughtResult' = ProcessFailed)
          => /\ Len(thoughtHistory') = Len(thoughtHistory) + 1
             /\ thoughtHistory'[Len(thoughtHistory')]
                   = Adjusted(accepted'[Len(accepted')])]_vars

\* The branchId values of the accepted thoughts that carried both
\* branchFromThought and branchId.
BranchIdsCarried(thoughts) ==
    {thoughts[k].branchId[1] :
        k \in {j \in 1..Len(thoughts) :
                 /\ thoughts[j].branchFromThought # <<>>
                 /\ thoughts[j].branchId # <<>>}}

\* A thought without both fields adds no branch, and no branch is dropped.
BranchesGrow ==
    [][/\ DOMAIN branches \subseteq DOMAIN branches'
       /\ (AcceptedStep /\ ~Tracks(accepted'[Len(accepted')]))
             => branches' = branches
       /\ ~AcceptedStep => branches' = branches]_vars

\* C33. Branch tracking: after any sequence of accepted thoughts the
\* branches list that sequential_thinking reports is exactly the set of the
\* distinct branchId values of the accepted thoughts that carried both
\* branchFromThought and branchId; a thought without both adds no branch,
\* and the set never shrinks.
BranchTracking ==
    /\ [](DOMAIN branches = BranchIdsCarried(accepted))
    /\ [](thoughtResult.text = "thoughtResponse"
            => thoughtResult.branches = BranchIdsCarried(accepted))
    /\ BranchesGrow

\* What holds of the code: the branches are the carried branchId values
\* that name no inherited property.
BranchTrackingOwnKeys ==
    /\ [](DOMAIN branches = BranchIdsCarried(accepted) \ InheritedKeys)
    /\ [](thoughtResult.text = "thoughtResponse"
            => thoughtResult.branches
                 = BranchIdsCarried(accepted) \ InheritedKeys)
    /\ BranchesGrow

============================================================================
